---- MODULE Spec2Model ----
(***************************************************************************)
(* Route optimisation and route cache of MS-USER-PY.                       *)
(*                                                                         *)
(*   src/src/cache/route_cache.py       RouteCache (TTL + LRU, in memory)  *)
(*   src/src/routers/routes.py          nearest neighbour planner and the  *)
(*                                      optimize_route endpoint            *)
(*   src/src/routers/assignments.py     assign / reassign / unassign       *)
(*   src/src/clients/openroute_client.py  external distance provider       *)
(*   src/src/clients/nominatim_client.py  geocoding client and its throttle *)
(*                                                                         *)
(* The specifications share the actions: KeySpec (the key function),      *)
(* CacheSpec (the cache under any caller), ServiceSpec (every endpoint,    *)
(* from an empty assignment table, within one tick of the clock),          *)
(* RouteSpec (the route endpoints over time for a seller with two stops),  *)
(* ForceSpec (forceRecalculate, two sellers), StartSpec (starting points   *)
(* outside the coordinate ranges), PlanSpec (the route computation         *)
(* followed statement by statement; PlanLiveSpec adds weak fairness),      *)
(* NominatimSpec (concurrent callers of the geocoding client) and StatSpec *)
(* (the statistics of a response).                                         *)
(*                                                                         *)
(* Time is a discrete wall clock of SecondsPerTick seconds per tick that   *)
(* never runs backwards.  The dict of the cache is a sequence of entries   *)
(* in insertion order (the iteration order of a Python dict), each entry   *)
(* carrying its key.  The 16 hex digit sha256 prefix is taken as injective *)
(* on the text it digests, so a key is that text: the seller id and the    *)
(* sorted id list.                                                         *)
(***************************************************************************)
EXTENDS Integers, Sequences, FiniteSets, TLC

VARIABLES
    cache,              \* RouteCache._cache, in insertion order
    hits,               \* RouteCache.hits
    misses,             \* RouteCache.misses
    invalidations,      \* RouteCache.invalidations
    now,                \* datetime.now()
    assignments,        \* rows of table "assignments", index = Assignment.id
    inflight,           \* optimize_route coroutines suspended on the HTTP call
    request_count,      \* OpenRouteServiceClient._request_count
    OPENROUTE_ENABLED,  \* settings.OPENROUTE_ENABLED as read by routes.py
    openroute_client,   \* routes.openroute_client: "none", "nokey" or "key"
    last,               \* the call that made the last step and what it returned
    hit_age,            \* per cached key: the age the last hit reported, and
                        \* the creation stamp of the entry that was hit
    plan,               \* the frame of a calculate_optimized_route_with_api
                        \* call that is followed statement by statement
    nominatim           \* the NominatimClient instance, the coroutines inside
                        \* its methods, the clock they read and what was sent

vars == <<cache, hits, misses, invalidations, now, assignments, inflight,
          request_count, OPENROUTE_ENABLED, openroute_client, last, hit_age, plan,
          nominatim>>

cacheVars == <<cache, hits, misses, invalidations>>
serviceVars == <<assignments, inflight, request_count, hit_age>>
configVars == <<OPENROUTE_ENABLED, openroute_client>>

\* Python None where a dict is expected
None == [none |-> TRUE]

\* no planner call is followed statement by statement
NoPlan == [pc |-> "idle"]

----------------------------------------------------------------------------
(* Bounds of the model *)

MaxTime == 3            \* the clock stops here
MaxIdLen == 3           \* longest id list handed to the cache directly
MaxCount == 3           \* cap of hits + misses, and of invalidations
MaxAssignments == 2     \* rows the assignment table may hold
MaxInflight == 1        \* coroutines suspended at once
MaxApiCalls == 1        \* cap of _request_count
MaxStops == 3           \* longest stop list handed to the planner directly
MaxLegs == 10           \* longest route handed to the statistics directly
MaxClock == 6           \* the clock of the Nominatim client stops here
MaxCallers == 2         \* requests inside a method of the Nominatim client at once
MaxSends == 3           \* cap of the requests sent to Nominatim

(* RouteCache(ttl_hours, max_size): constructor parameters, in ticks and   *)
(* entries; the instance of the program uses 24 hours and 1000 entries.    *)
ttl == 3
max_size == 2

SecondsPerTick == 30

\* the 1.0 (seconds) of NominatimClient._rate_limit, in units of the clock
\* that the client reads: the unit is half a second
OneSecond == 2

----------------------------------------------------------------------------
(* Entities *)

SellerIds == {1, 2}               \* rows of table "sellers"
UnknownSellerId == 3              \* an id with no row
ShopkeeperIds == {1, 2}           \* ids used in direct cache calls
Callers == 1..MaxCallers          \* request handlers that call the Nominatim client

\* the methods of NominatimClient that send a request
Methods == {"geocode", "reverse_geocode", "search_place"}

\* the global nominatim_client after NominatimClient.__init__, with no caller
\* inside it, nothing sent, and the clock more than a second after time 0
NewNominatimClient ==
    [clock |-> OneSecond, _last_request_time |-> 0, _request_count |-> 0,
     calls |-> [c \in Callers |-> [pc |-> "idle"]], sent |-> <<>>]

\* sorted(): insertion of x into an already sorted sequence
RECURSIVE InsertSorted(_, _)
InsertSorted(x, s) ==
    IF s = <<>> THEN <<x>>
    ELSE IF x <= Head(s) THEN <<x>> \o s
    ELSE <<Head(s)>> \o InsertSorted(x, Tail(s))

RECURSIVE sorted(_)
sorted(s) == IF s = <<>> THEN <<>> ELSE InsertSorted(Head(s), sorted(Tail(s)))

\* mutation of _generate_key: the id list is digested in input order
generate_key_unsorted(seller_id, shopkeeper_ids) == <<seller_id, shopkeeper_ids>>

\* mutation of _generate_key: duplicates are collapsed before the digest
RECURSIVE Dedup(_)
Dedup(s) ==
    IF Len(s) <= 1 THEN s
    ELSE IF Head(s) = Head(Tail(s)) THEN Dedup(Tail(s))
    ELSE <<Head(s)>> \o Dedup(Tail(s))

generate_key_dedup(seller_id, shopkeeper_ids) == <<seller_id, Dedup(sorted(shopkeeper_ids))>>

\* RouteCache._generate_key: "seller:<id>:shopkeepers:<sorted ids, comma joined>"
_generate_key(seller_id, shopkeeper_ids) == <<seller_id, sorted(shopkeeper_ids)>>

\* position of key in the dict, 0 when absent ("key in self._cache")
IndexOf(c, key) ==
    IF \E i \in 1..Len(c) : c[i].key = key
    THEN CHOOSE i \in 1..Len(c) : c[i].key = key
    ELSE 0

\* del self._cache[key]
RemoveAt(c, i) == [j \in 1..(Len(c) - 1) |-> IF j < i THEN c[j] ELSE c[j + 1]]

\* mutation of get: a hit restarts the lifetime of the entry
get_sliding(c, h, m, seller_id, shopkeeper_ids, t) ==
    LET key == _generate_key(seller_id, shopkeeper_ids)
        i == IndexOf(c, key)
    IN  IF i # 0 /\ t - c[i].timestamp < ttl
        THEN [cache |-> [c EXCEPT ![i].last_access = t, ![i].timestamp = t],
              hits |-> h + 1, misses |-> m, result |-> c[i].data]
        ELSE IF i # 0
        THEN [cache |-> RemoveAt(c, i), hits |-> h, misses |-> m + 1, result |-> None]
        ELSE [cache |-> c, hits |-> h, misses |-> m + 1, result |-> None]

\* mutation of get: the entry is dropped one clock unit before its TTL
get_expires_early(c, h, m, seller_id, shopkeeper_ids, t) ==
    LET key == _generate_key(seller_id, shopkeeper_ids)
        i == IndexOf(c, key)
    IN  IF i # 0 /\ t - c[i].timestamp < ttl - 1
        THEN [cache |-> [c EXCEPT ![i].last_access = t],
              hits |-> h + 1, misses |-> m, result |-> c[i].data]
        ELSE IF i # 0
        THEN [cache |-> RemoveAt(c, i), hits |-> h, misses |-> m + 1, result |-> None]
        ELSE [cache |-> c, hits |-> h, misses |-> m + 1, result |-> None]

\* mutation of get: an entry found expired is dropped without counting a miss
get_expiry_uncounted(c, h, m, seller_id, shopkeeper_ids, t) ==
    LET key == _generate_key(seller_id, shopkeeper_ids)
        i == IndexOf(c, key)
    IN  IF i # 0 /\ t - c[i].timestamp < ttl
        THEN [cache |-> [c EXCEPT ![i].last_access = t],
              hits |-> h + 1, misses |-> m, result |-> c[i].data]
        ELSE IF i # 0
        THEN [cache |-> RemoveAt(c, i), hits |-> h, misses |-> m, result |-> None]
        ELSE [cache |-> c, hits |-> h, misses |-> m + 1, result |-> None]

\* RouteCache.get
get(c, h, m, seller_id, shopkeeper_ids, t) ==
    LET key == _generate_key(seller_id, shopkeeper_ids)
        i == IndexOf(c, key)
    IN  IF i # 0 /\ t - c[i].timestamp < ttl
        THEN [cache |-> [c EXCEPT ![i].last_access = t],
              hits |-> h + 1, misses |-> m, result |-> c[i].data]
        ELSE IF i # 0
        THEN [cache |-> RemoveAt(c, i), hits |-> h, misses |-> m + 1, result |-> None]
        ELSE [cache |-> c, hits |-> h, misses |-> m + 1, result |-> None]

\* mutation of _evict_lru: the oldest creation time decides (FIFO)
evict_oldest_created(c) ==
    IF c = <<>> THEN c
    ELSE LET oldest == CHOOSE i \in 1..Len(c) :
                 /\ \A j \in 1..Len(c) : c[i].timestamp <= c[j].timestamp
                 /\ \A j \in 1..(i - 1) : c[j].timestamp > c[i].timestamp
         IN  RemoveAt(c, oldest)

\* RouteCache._evict_lru: min() keeps the first minimum in iteration order
_evict_lru(c) ==
    IF c = <<>> THEN c
    ELSE LET oldest == CHOOSE i \in 1..Len(c) :
                 /\ \A j \in 1..Len(c) : c[i].last_access <= c[j].last_access
                 /\ \A j \in 1..(i - 1) : c[j].last_access > c[i].last_access
         IN  RemoveAt(c, oldest)

\* mutation of set: the entry is added without a look for its key
set_appends_duplicate(c, seller_id, shopkeeper_ids, route_data, t) ==
    LET c1 == IF Len(c) >= max_size THEN _evict_lru(c) ELSE c
        key == _generate_key(seller_id, shopkeeper_ids)
        entry == [key |-> key, data |-> route_data, timestamp |-> t,
                  last_access |-> t, seller_id |-> seller_id,
                  shopkeeper_count |-> Len(shopkeeper_ids)]
    IN  Append(c1, entry)

\* mutation of set: nothing is evicted when the cache is at its limit
set_never_evicts(c, seller_id, shopkeeper_ids, route_data, t) ==
    LET key == _generate_key(seller_id, shopkeeper_ids)
        entry == [key |-> key, data |-> route_data, timestamp |-> t,
                  last_access |-> t, seller_id |-> seller_id,
                  shopkeeper_count |-> Len(shopkeeper_ids)]
        i == IndexOf(c, key)
    IN  IF i # 0 THEN [c EXCEPT ![i] = entry] ELSE Append(c, entry)

\* mutation of set: an entry that is overwritten keeps its creation time
set_keeps_timestamp(c, seller_id, shopkeeper_ids, route_data, t) ==
    LET c1 == IF Len(c) >= max_size THEN _evict_lru(c) ELSE c
        key == _generate_key(seller_id, shopkeeper_ids)
        i == IndexOf(c1, key)
        entry == [key |-> key, data |-> route_data,
                  timestamp |-> IF i # 0 THEN c1[i].timestamp ELSE t,
                  last_access |-> t, seller_id |-> seller_id,
                  shopkeeper_count |-> Len(shopkeeper_ids)]
    IN  IF i # 0 THEN [c1 EXCEPT ![i] = entry] ELSE Append(c1, entry)

\* RouteCache.set
set(c, seller_id, shopkeeper_ids, route_data, t) ==
    LET c1 == IF Len(c) >= max_size THEN _evict_lru(c) ELSE c
        key == _generate_key(seller_id, shopkeeper_ids)
        entry == [key |-> key, data |-> route_data, timestamp |-> t,
                  last_access |-> t, seller_id |-> seller_id,
                  shopkeeper_count |-> Len(shopkeeper_ids)]
        i == IndexOf(c1, key)
    IN  IF i # 0 THEN [c1 EXCEPT ![i] = entry] ELSE Append(c1, entry)

\* mutation of invalidate_seller: only the first entry of the seller goes
invalidate_first_of_seller(c, seller_id) ==
    IF \E i \in 1..Len(c) : c[i].seller_id = seller_id
    THEN RemoveAt(c, CHOOSE i \in 1..Len(c) :
                        /\ c[i].seller_id = seller_id
                        /\ \A j \in 1..(i - 1) : c[j].seller_id # seller_id)
    ELSE c

\* RouteCache.invalidate_seller: the entries that stay
invalidate_seller(c, seller_id) == SelectSeq(c, LAMBDA e : e.seller_id # seller_id)

\* mutation of get_entry_info: the two minute counts are swapped
get_entry_info_swapped(c, seller_id, shopkeeper_ids, t) ==
    LET key == _generate_key(seller_id, shopkeeper_ids)
        i == IndexOf(c, key)
    IN  IF i # 0
        THEN [exists |-> TRUE,
              age_minutes |-> ((ttl - (t - c[i].timestamp)) * SecondsPerTick) \div 60,
              shopkeeper_count |-> c[i].shopkeeper_count,
              expires_in_minutes |-> ((t - c[i].timestamp) * SecondsPerTick) \div 60]
        ELSE [exists |-> FALSE]

\* RouteCache.get_entry_info
get_entry_info(c, seller_id, shopkeeper_ids, t) ==
    LET key == _generate_key(seller_id, shopkeeper_ids)
        i == IndexOf(c, key)
    IN  IF i # 0
        THEN [exists |-> TRUE,
              age_minutes |-> ((t - c[i].timestamp) * SecondsPerTick) \div 60,
              shopkeeper_count |-> c[i].shopkeeper_count,
              expires_in_minutes |-> ((ttl - (t - c[i].timestamp)) * SecondsPerTick) \div 60]
        ELSE [exists |-> FALSE]

----------------------------------------------------------------------------
(* Route planner: routes.py *)

(* Table "shopkeepers": id, coordinates in whole degrees, is_active.       *)
Shopkeepers ==
    (1 :> [id |-> 1, latitude |-> 1, longitude |-> 1, is_active |-> TRUE]) @@
    (2 :> [id |-> 2, latitude |-> 1, longitude |-> 3, is_active |-> TRUE]) @@
    (3 :> [id |-> 3, latitude |-> 2, longitude |-> 2, is_active |-> FALSE])

\* an Optional[float] query parameter: <<>> is None, <<v>> is the value v.
\* The (start_latitude, start_longitude) pairs of the requests: no start,
\* and a start off both axes.
StartOptions == {<< <<>>, <<>> >>, << <<1>>, <<4>> >>}

\* truth value of an Optional[float]: None and 0.0 are false
Truthy(x) == x # <<>> /\ x[1] # 0

Abs(x) == IF x < 0 THEN -x ELSE x

\* float("nan"), which a float query parameter accepts: a number below every
\* coordinate and every distance of the model
NaN == -1000000

\* a + b on floats
fadd(a, b) == IF a = NaN \/ b = NaN THEN NaN ELSE a + b

\* length of one degree of a great circle of radius 6371 km, in metres
MetresPerDegree == 111194

(* calculate_distance, in metres.  The haversine formula is replaced on    *)
(* the degree grid by the degree count along both axes times the length of *)
(* a degree: symmetric, zero exactly between equal points, never negative. *)
(* sin, cos and atan2 of nan are nan.                                      *)
calculate_distance(lat1, lon1, lat2, lon2) ==
    IF lat1 = NaN \/ lon1 = NaN \/ lat2 = NaN \/ lon2 = NaN
    THEN NaN
    ELSE MetresPerDegree * (Abs(lat2 - lat1) + Abs(lon2 - lon1))

\* round(a / b) to the nearest integer, ties to the even one (Python round)
RoundDiv(a, b) ==
    LET q == a \div b
        r == a % b
    IN  IF 2 * r < b THEN q
        ELSE IF 2 * r > b THEN q + 1
        ELSE IF q % 2 = 0 THEN q ELSE q + 1

\* round(metres / 1000, 2), in hundredths of a kilometre; round(nan, 2) is nan
round2(metres) == IF metres = NaN THEN NaN ELSE RoundDiv(metres, 10)

\* mutation of Nearest: "<=" in place of "<", the last minimum of the scan
nearest_last_minimum(unvisited, lat, lon) ==
    LET d(i) == calculate_distance(lat, lon, unvisited[i].latitude, unvisited[i].longitude)
        comparable == {i \in 1..Len(unvisited) : d(i) # NaN}
    IN  IF comparable = {} THEN 0
        ELSE CHOOSE i \in comparable :
                /\ \A j \in comparable : d(i) <= d(j)
                /\ \A j \in comparable : j > i => d(j) > d(i)

\* index of the first stop of unvisited at minimal distance from (lat, lon):
\* "if dist < min_distance" keeps the first minimum of the scan and is false
\* for a dist of nan; 0 (nearest stays None) when no dist compared below inf
Nearest(unvisited, lat, lon) ==
    LET d(i) == calculate_distance(lat, lon, unvisited[i].latitude, unvisited[i].longitude)
        comparable == {i \in 1..Len(unvisited) : d(i) # NaN}
    IN  IF comparable = {} THEN 0
        ELSE CHOOSE i \in comparable :
                /\ \A j \in comparable : d(i) <= d(j)
                /\ \A j \in comparable : j < i => d(j) > d(i)

\* the while loop of nearest_neighbor_route run to its end, from the current
\* state of unvisited, route, current position and cumulative_distance
\* (metres); for positions from which every scan finds a stop
RECURSIVE GreedyLoop(_, _, _, _, _)
GreedyLoop(unvisited, route, lat, lon, cumulative_distance) ==
    IF unvisited = <<>> THEN route
    ELSE LET i == Nearest(unvisited, lat, lon)
             nearest == unvisited[i]
             min_distance == calculate_distance(lat, lon, nearest.latitude, nearest.longitude)
             cumulative == cumulative_distance + min_distance
         IN  GreedyLoop(RemoveAt(unvisited, i),
                        Append(route, [shopkeeper |-> nearest.id,
                                       order |-> Len(route) + 1,
                                       distance_from_previous |-> round2(min_distance),
                                       cumulative_distance |-> round2(cumulative)]),
                        nearest.latitude, nearest.longitude, cumulative)

\* nearest_neighbor_route
nearest_neighbor_route(shopkeepers, start_lat, start_lon) ==
    IF shopkeepers = <<>> THEN <<>>
    ELSE IF Truthy(start_lat) /\ Truthy(start_lon)
    THEN GreedyLoop(shopkeepers, <<>>, start_lat[1], start_lon[1], 0)
    ELSE LET first == Head(shopkeepers)
         IN  GreedyLoop(Tail(shopkeepers),
                        <<[shopkeeper |-> first.id, order |-> 1,
                           distance_from_previous |-> 0, cumulative_distance |-> 0]>>,
                        first.latitude, first.longitude, 0)

(* OpenRouteServiceClient.get_route: what the HTTP exchange can end in.    *)
(* "ok" is status 200 with a route; every other outcome ends in None.      *)
HttpOutcomes ==
    {"ok", "no_routes", "bad_json", "no_summary", "401", "429", "other_status",
     "timeout", "exception"}

\* the outcomes after which "self._request_count += 1" has run
CountedOutcomes == {"ok", "no_routes", "no_summary"}

\* mutation of get_route_result: an empty route list is passed on as a route
get_route_result_accepts_empty(outcome) ==
    IF outcome \in {"ok", "no_routes"}
    THEN [distance_km |-> 0, duration_minutes |-> 0]
    ELSE None

\* the value get_route returns once the exchange ended in outcome
get_route_result(outcome) ==
    IF outcome = "ok"
    THEN [distance_km |-> 1, duration_minutes |-> 1]
    ELSE None

\* mutation of ApiRouteLoop: the stops are taken from the end of the input
RECURSIVE api_route_loop_reversed(_, _, _, _, _)
api_route_loop_reversed(shopkeepers, idx, start_lat, start_lon, acc) ==
    IF idx > Len(shopkeepers) THEN acc.route
    ELSE LET sk == shopkeepers[Len(shopkeepers) + 1 - idx]
             segment_distance ==
                 IF idx = 1
                 THEN IF Truthy(start_lat) /\ Truthy(start_lon)
                      THEN calculate_distance(start_lat[1], start_lon[1],
                                              sk.latitude, sk.longitude)
                      ELSE 0
                 ELSE calculate_distance(shopkeepers[Len(shopkeepers) + 2 - idx].latitude,
                                         shopkeepers[Len(shopkeepers) + 2 - idx].longitude,
                                         sk.latitude, sk.longitude)
             cumulative == fadd(acc.cumulative_distance, segment_distance)
         IN  api_route_loop_reversed(shopkeepers, idx + 1, start_lat, start_lon,
                          [route |-> Append(acc.route,
                                [shopkeeper |-> sk.id, order |-> idx,
                                 distance_from_previous |-> round2(segment_distance),
                                 cumulative_distance |-> round2(cumulative)]),
                           cumulative_distance |-> cumulative])

\* the loop that builds the route in input order after a successful API call
RECURSIVE ApiRouteLoop(_, _, _, _, _)
ApiRouteLoop(shopkeepers, idx, start_lat, start_lon, acc) ==
    IF idx > Len(shopkeepers) THEN acc.route
    ELSE LET sk == shopkeepers[idx]
             segment_distance ==
                 IF idx = 1
                 THEN IF Truthy(start_lat) /\ Truthy(start_lon)
                      THEN calculate_distance(start_lat[1], start_lon[1],
                                              sk.latitude, sk.longitude)
                      ELSE 0
                 ELSE calculate_distance(shopkeepers[idx - 1].latitude,
                                         shopkeepers[idx - 1].longitude,
                                         sk.latitude, sk.longitude)
             cumulative == fadd(acc.cumulative_distance, segment_distance)
         IN  ApiRouteLoop(shopkeepers, idx + 1, start_lat, start_lon,
                          [route |-> Append(acc.route,
                                [shopkeeper |-> sk.id, order |-> idx,
                                 distance_from_previous |-> round2(segment_distance),
                                 cumulative_distance |-> round2(cumulative)]),
                           cumulative_distance |-> cumulative])

\* calculate_optimized_route_with_api up to the call of get_route: TRUE when
\* the function returns the geodesic route without calling the client
ApiNotConfigured == ~OPENROUTE_ENABLED \/ openroute_client = "none"

\* mutation of route_after_api: a failed call is reported as plain haversine
route_after_api_untagged(shopkeepers, start_lat, start_lon, route_data) ==
    IF route_data = None
    THEN <<nearest_neighbor_route(shopkeepers, start_lat, start_lon), "haversine">>
    ELSE <<ApiRouteLoop(shopkeepers, 1, start_lat, start_lon,
                        [route |-> <<>>, cumulative_distance |-> 0]),
           "openrouteservice">>

\* calculate_optimized_route_with_api after get_route returned route_data
route_after_api(shopkeepers, start_lat, start_lon, route_data) ==
    IF route_data = None
    THEN <<nearest_neighbor_route(shopkeepers, start_lat, start_lon), "haversine_fallback">>
    ELSE <<ApiRouteLoop(shopkeepers, 1, start_lat, start_lon,
                        [route |-> <<>>, cumulative_distance |-> 0]),
           "openrouteservice">>

\* calculate_optimized_route_with_api when the API is not configured
route_without_api(shopkeepers, start_lat, start_lon) ==
    <<nearest_neighbor_route(shopkeepers, start_lat, start_lon), "haversine">>

\* the value of "cache_age_minutes" while the dict has no such key
NoAge == -1

avg_speed_kmh == 25
visit_time_minutes == 10

\* mutation of build_response: the total time is the sum of the two rounded
\* times
build_response_sums_rounded(seller_id, optimized_route, algorithm_used) ==
    LET n == Len(optimized_route)
        total_distance == IF n > 0 THEN optimized_route[n].cumulative_distance ELSE 0
    IN  [seller_id |-> seller_id,
         route_points |-> [i \in 1..n |->
             [shopkeeper_id |-> optimized_route[i].shopkeeper,
              order |-> optimized_route[i].order,
              distance_from_previous_km |-> optimized_route[i].distance_from_previous,
              cumulative_distance_km |-> optimized_route[i].cumulative_distance]],
         statistics |->
             [total_shopkeepers |-> n,
              total_distance_km |-> total_distance,
              estimated_travel_time_hours |-> RoundDiv(total_distance, avg_speed_kmh),
              estimated_visit_time_hours |-> RoundDiv(n * visit_time_minutes * 100, 60),
              estimated_total_time_hours |->
                  RoundDiv(total_distance, avg_speed_kmh)
                      + RoundDiv(n * visit_time_minutes * 100, 60),
              average_distance_between_stops_km |->
                  IF n > 0 THEN RoundDiv(total_distance, n) ELSE 0],
         algorithm_used |-> algorithm_used,
         from_cache |-> FALSE,
         cache_age_minutes |-> NoAge]

\* optimize_route, "Construir respuesta" to response_data: distances in
\* hundredths of a kilometre, times in hundredths of an hour
build_response(seller_id, optimized_route, algorithm_used) ==
    LET n == Len(optimized_route)
        total_distance == IF n > 0 THEN optimized_route[n].cumulative_distance ELSE 0
    IN  [seller_id |-> seller_id,
         route_points |-> [i \in 1..n |->
             [shopkeeper_id |-> optimized_route[i].shopkeeper,
              order |-> optimized_route[i].order,
              distance_from_previous_km |-> optimized_route[i].distance_from_previous,
              cumulative_distance_km |-> optimized_route[i].cumulative_distance]],
         statistics |->
             [total_shopkeepers |-> n,
              total_distance_km |-> total_distance,
              estimated_travel_time_hours |-> RoundDiv(total_distance, avg_speed_kmh),
              estimated_visit_time_hours |-> RoundDiv(n * visit_time_minutes * 100, 60),
              estimated_total_time_hours |->
                  RoundDiv(60 * total_distance + avg_speed_kmh * n * visit_time_minutes * 100,
                           60 * avg_speed_kmh),
              average_distance_between_stops_km |->
                  IF n > 0 THEN RoundDiv(total_distance, n) ELSE 0],
         algorithm_used |-> algorithm_used,
         from_cache |-> FALSE,
         cache_age_minutes |-> NoAge]

\* RouteCache.get_stats; hit_rate = round(hits / total_requests, 3), in
\* thousandths
get_stats(c, h, m, inv) ==
    LET total_requests == h + m
    IN  [size |-> Len(c),
         max_size |-> max_size,
         hits |-> h,
         misses |-> m,
         hit_rate |-> IF total_requests > 0 THEN RoundDiv(1000 * h, total_requests) ELSE 0,
         invalidations |-> inv,
         ttl_ticks |-> ttl]

----------------------------------------------------------------------------
(* The cache as a unit: any caller, any arguments *)

\* all sequences over S of length 0..n
RECURSIVE SeqsUpTo(_, _)
SeqsUpTo(S, n) ==
    IF n = 0 THEN {<<>>}
    ELSE LET shorter == SeqsUpTo(S, n - 1)
         IN  shorter \cup {Append(s, x) : s \in {q \in shorter : Len(q) = n - 1}, x \in S}

IdLists == SeqsUpTo(ShopkeeperIds, MaxIdLen)

\* the id lists of the callers of the cache as a unit: one stop each
StopLists == {<<i>> : i \in ShopkeeperIds}

\* the route dict a direct caller stores for (seller_id, shopkeeper_ids)
SampleRoute(seller_id, shopkeeper_ids) ==
    [seller_id |-> seller_id, route_points |-> shopkeeper_ids,
     algorithm_used |-> "haversine", from_cache |-> FALSE,
     cache_age_minutes |-> NoAge]

Range(f) == {f[i] : i \in DOMAIN f}

Keys(c) == {c[i].key : i \in 1..Len(c)}

\* the rearrangements of a sequence
Reorderings(s) ==
    {[i \in 1..Len(s) |-> s[p[i]]] :
        p \in {q \in [1..Len(s) -> 1..Len(s)] : \A i, j \in 1..Len(s) : q[i] = q[j] => i = j}}

\* the distinct elements of a sequence
Elems(s) == {s[i] : i \in 1..Len(s)}

InitCache ==
    /\ cache = <<>>
    /\ hits = 0
    /\ misses = 0
    /\ invalidations = 0
    /\ now = 0

InitService ==
    /\ assignments = <<>>
    /\ inflight = {}
    /\ request_count = 0
    /\ hit_age = <<>>
    /\ plan = NoPlan
    /\ nominatim = NewNominatimClient

CacheInit ==
    /\ InitCache
    /\ InitService
    /\ OPENROUTE_ENABLED = FALSE
    /\ openroute_client = "none"
    /\ last = [op |-> "init"]

\* route_cache.get(seller_id, shopkeeper_ids)
CacheGet(seller_id, shopkeeper_ids) ==
    /\ hits + misses < MaxCount
    /\ LET r == get(cache, hits, misses, seller_id, shopkeeper_ids, now)
       IN  /\ cache' = r.cache
           /\ hits' = r.hits
           /\ misses' = r.misses
           /\ last' = [op |-> "get", seller_id |-> seller_id,
                       shopkeeper_ids |-> shopkeeper_ids, result |-> r.result,
                       expired |-> \E i \in 1..Len(cache) :
                           /\ cache[i].key = _generate_key(seller_id, shopkeeper_ids)
                           /\ now - cache[i].timestamp >= ttl,
                       touched |-> \E i \in 1..Len(cache) :
                           /\ cache[i].key = _generate_key(seller_id, shopkeeper_ids)
                           /\ cache[i].last_access > cache[i].timestamp]
    /\ UNCHANGED <<invalidations, now, serviceVars, configVars, plan, nominatim>>

\* route_cache.set(seller_id, shopkeeper_ids, route_data)
CacheSet(seller_id, shopkeeper_ids, route_data) ==
    /\ cache' = set(cache, seller_id, shopkeeper_ids, route_data, now)
    /\ last' = [op |-> "set", seller_id |-> seller_id,
                shopkeeper_ids |-> shopkeeper_ids,
                full |-> Len(cache) >= max_size,
                present |-> _generate_key(seller_id, shopkeeper_ids) \in Keys(cache),
                lru_is_newest |-> \E i \in 1..Len(cache) :
                    /\ \A j \in 1..Len(cache) : j # i =>
                          /\ cache[i].last_access < cache[j].last_access
                          /\ cache[i].timestamp > cache[j].timestamp]
    /\ UNCHANGED <<hits, misses, invalidations, now, serviceVars, configVars, plan, nominatim>>

\* route_cache.invalidate_seller(seller_id)
CacheInvalidateSeller(seller_id) ==
    /\ invalidations < MaxCount
    /\ cache' = invalidate_seller(cache, seller_id)
    /\ invalidations' = invalidations + (Len(cache) - Len(cache'))
    /\ last' = [op |-> "invalidate_seller", seller_id |-> seller_id,
                owned |-> Cardinality({i \in 1..Len(cache) : cache[i].seller_id = seller_id}),
                others |-> Cardinality({i \in 1..Len(cache) : cache[i].seller_id # seller_id})]
    /\ UNCHANGED <<hits, misses, now, serviceVars, configVars, plan, nominatim>>

\* route_cache.invalidate_all()
CacheInvalidateAll ==
    /\ invalidations < MaxCount
    /\ cache' = <<>>
    /\ invalidations' = invalidations + Len(cache)
    /\ last' = [op |-> "invalidate_all"]
    /\ UNCHANGED <<hits, misses, now, serviceVars, configVars, plan, nominatim>>

\* route_cache.get_stats()
CacheStats ==
    /\ last' = [op |-> "get_stats",
                result |-> get_stats(cache, hits, misses, invalidations)]
    /\ UNCHANGED <<cacheVars, now, serviceVars, configVars, plan, nominatim>>

\* the wall clock advances
Tick ==
    /\ now < MaxTime
    /\ now' = now + 1
    /\ last' = [op |-> "tick"]
    /\ UNCHANGED <<cacheVars, serviceVars, configVars, plan, nominatim>>

CacheNext ==
    \/ \E s \in SellerIds, ids \in StopLists : CacheGet(s, ids)
    \/ \E s \in SellerIds, ids \in StopLists : CacheSet(s, ids, SampleRoute(s, ids))
    \/ \E s \in SellerIds : CacheInvalidateSeller(s)
    \/ CacheInvalidateAll
    \/ CacheStats
    \/ Tick

CacheSpec == CacheInit /\ [][CacheNext]_vars

----------------------------------------------------------------------------
(* The service: routes.py and assignments.py on the shared route_cache *)

\* ids that name no row of table "shopkeepers"
UnknownShopkeeperId == 4

\* rows of "assignments" that are active
ActiveRows == {i \in 1..Len(assignments) : assignments[i].is_active}

\* what the join of optimize_route selects for seller_id: active assignments
\* of the seller whose shopkeeper is active
RouteRows(seller_id) ==
    {i \in ActiveRows :
        /\ assignments[i].seller_id = seller_id
        /\ Shopkeepers[assignments[i].shopkeeper_id].is_active}

\* the results .all() may return: the selected rows in any order (the query
\* has no ORDER BY), each as the joined shopkeeper
RouteQueryResults(seller_id) ==
    LET rows == RouteRows(seller_id)
        n == Cardinality(rows)
    IN  {[i \in 1..n |-> Shopkeepers[assignments[o[i]].shopkeeper_id]] :
            o \in {q \in [1..n -> rows] : \A i, j \in 1..n : q[i] = q[j] => i = j}}

IdsOf(shopkeepers) == [i \in 1..Len(shopkeepers) |-> shopkeepers[i].id]

\* hit_age after a step: the records of the keys of keep; a key whose entry
\* was invalidated, evicted or found expired loses its record
KeepHitAge(keep) == [k \in (DOMAIN hit_age) \cap keep |-> hit_age[k]]

\* optimize_route from "Generar ruta nueva" on: build the response, store it
\* (route_cache.set) and return it
FinishRoute(c, seller_id, shopkeepers, planned, call) ==
    \E route \in {planned} :
    \E response_data \in {build_response(seller_id, route[1], route[2])} :
        /\ cache' = set(c, seller_id, IdsOf(shopkeepers), response_data, now)
        /\ hit_age' = KeepHitAge(Keys(c) \cap Keys(cache'))
        /\ last' = call

\* optimize_route ending in HTTPException(status) before the cache is read;
\* seller_id is the seller the request resolved to, 0 when it resolved to none
RouteError(status, seller_id) ==
    /\ last' = [op |-> "optimize_route", status |-> status, seller_id |-> seller_id,
                shopkeeper_ids |-> <<>>, force |-> FALSE,
                planner |-> FALSE, called |-> FALSE, outcome |-> "none"]
    /\ UNCHANGED <<cacheVars, now, serviceVars, configVars, plan, nominatim>>

\* mutation of mark_from_cache: the dict of the cache is left as it was put
mark_nothing(cached_route, age_minutes) == cached_route

\* the hit path of optimize_route writes its two keys into the dict that
\* route_cache.get returned, which is the dict the cache holds
mark_from_cache(cached_route, age_minutes) ==
    [cached_route EXCEPT !.from_cache = TRUE, !.cache_age_minutes = age_minutes]

\* optimize_route once the seller and a non-empty stop list are known
ServeRoute(seller_id, shopkeepers, start_latitude, start_longitude, force_recalculate) ==
    \E ids \in {IdsOf(shopkeepers)} :
    \E r \in {IF force_recalculate
             THEN [cache |-> cache, hits |-> hits, misses |-> misses, result |-> None]
             ELSE get(cache, hits, misses, seller_id, ids, now)} :
    \E i \in {IndexOf(r.cache, _generate_key(seller_id, ids))} :
        /\ force_recalculate \/ hits + misses < MaxCount
        /\ hits' = r.hits
        /\ misses' = r.misses
        /\ IF r.result # None
           THEN \* hit: the dict held by the cache is marked and returned
                LET entry_info == get_entry_info(r.cache, seller_id, ids, now)
                    cached_route == mark_from_cache(r.result, entry_info.age_minutes)
                IN  /\ cache' = [r.cache EXCEPT ![i].data = cached_route]
                    /\ hit_age' = [k \in (DOMAIN hit_age \cap Keys(cache')) \cup {r.cache[i].key} |->
                                     IF k = r.cache[i].key
                                     THEN [age |-> entry_info.age_minutes,
                                           created |-> r.cache[i].timestamp]
                                     ELSE hit_age[k]]
                    /\ last' = [op |-> "optimize_route", status |-> 200,
                                seller_id |-> seller_id, shopkeeper_ids |-> ids,
                                force |-> force_recalculate,
                                start |-> <<start_latitude, start_longitude>>,
                                planner |-> FALSE, called |-> FALSE, outcome |-> "none"]
                    /\ UNCHANGED <<inflight, request_count>>
           ELSE IF ApiNotConfigured
           THEN /\ FinishRoute(r.cache, seller_id, shopkeepers,
                               route_without_api(shopkeepers, start_latitude, start_longitude),
                               [op |-> "optimize_route", status |-> 200,
                                seller_id |-> seller_id, shopkeeper_ids |-> ids,
                                force |-> force_recalculate,
                                start |-> <<start_latitude, start_longitude>>,
                                planner |-> TRUE, called |-> FALSE, outcome |-> "none"])
                /\ UNCHANGED <<inflight, request_count>>
           ELSE IF openroute_client = "nokey"
           THEN \* get_route returns None before any request is sent
                /\ FinishRoute(r.cache, seller_id, shopkeepers,
                               route_after_api(shopkeepers, start_latitude, start_longitude, None),
                               [op |-> "optimize_route", status |-> 200,
                                seller_id |-> seller_id, shopkeeper_ids |-> ids,
                                force |-> force_recalculate,
                                start |-> <<start_latitude, start_longitude>>,
                                planner |-> TRUE, called |-> TRUE, outcome |-> "no_api_key"])
                /\ UNCHANGED <<inflight, request_count>>
           ELSE \* the coroutine is suspended in client.post(...)
                /\ Cardinality(inflight) < MaxInflight
                /\ request_count < MaxApiCalls
                /\ [seller_id |-> seller_id, shopkeepers |-> shopkeepers,
                    start_latitude |-> start_latitude,
                    start_longitude |-> start_longitude] \notin inflight
                /\ inflight' = inflight \cup
                       {[seller_id |-> seller_id, shopkeepers |-> shopkeepers,
                         start_latitude |-> start_latitude,
                         start_longitude |-> start_longitude]}
                /\ cache' = r.cache
                /\ hit_age' = KeepHitAge(Keys(cache'))
                /\ last' = [op |-> "optimize_route", status |-> 0,
                            seller_id |-> seller_id, shopkeeper_ids |-> ids,
                            force |-> force_recalculate,
                            start |-> <<start_latitude, start_longitude>>,
                            planner |-> TRUE, called |-> TRUE, outcome |-> "pending"]
                /\ UNCHANGED request_count
        /\ UNCHANGED <<invalidations, now, assignments, configVars, plan, nominatim>>

\* mutation of optimize_route: a seller without active stops is served
optimize_route_serves_empty(seller_id, shopkeeper_id, start_latitude, start_longitude, force_recalculate) ==
    IF seller_id = 0 /\ shopkeeper_id = 0
    THEN RouteError(400, 0)
    ELSE IF shopkeeper_id # 0 /\ ~\E a \in ActiveRows : assignments[a].shopkeeper_id = shopkeeper_id
    THEN RouteError(404, 0)
    ELSE \E resolved \in IF shopkeeper_id # 0
                         THEN {assignments[a].seller_id : a \in
                                 {b \in ActiveRows : assignments[b].shopkeeper_id = shopkeeper_id}}
                         ELSE {seller_id} :
            IF resolved \notin SellerIds
            THEN RouteError(404, resolved)
            ELSE \E shopkeepers \in RouteQueryResults(resolved) :
                    ServeRoute(resolved, shopkeepers, start_latitude, start_longitude,
                               force_recalculate)

\* GET /routes/optimize; an id of 0 stands for an id that was not sent
optimize_route(seller_id, shopkeeper_id, start_latitude, start_longitude, force_recalculate) ==
    IF seller_id = 0 /\ shopkeeper_id = 0
    THEN RouteError(400, 0)
    ELSE IF shopkeeper_id # 0 /\ ~\E a \in ActiveRows : assignments[a].shopkeeper_id = shopkeeper_id
    THEN RouteError(404, 0)
    ELSE \E resolved \in IF shopkeeper_id # 0
                         THEN {assignments[a].seller_id : a \in
                                 {b \in ActiveRows : assignments[b].shopkeeper_id = shopkeeper_id}}
                         ELSE {seller_id} :
            IF resolved \notin SellerIds
            THEN RouteError(404, resolved)
            ELSE IF RouteRows(resolved) = {}
            THEN RouteError(404, resolved)
            ELSE \E shopkeepers \in RouteQueryResults(resolved) :
                    ServeRoute(resolved, shopkeepers, start_latitude, start_longitude,
                               force_recalculate)

\* optimize_route resumed when the HTTP exchange of get_route ends
optimize_route_resume(req, outcome) ==
    /\ req \in inflight
    /\ inflight' = inflight \ {req}
    /\ request_count' = IF outcome \in CountedOutcomes
                        THEN request_count + 1 ELSE request_count
    /\ FinishRoute(cache, req.seller_id, req.shopkeepers,
                   route_after_api(req.shopkeepers, req.start_latitude,
                                   req.start_longitude, get_route_result(outcome)),
                   [op |-> "optimize_route_resume", status |-> 200,
                    seller_id |-> req.seller_id, shopkeeper_ids |-> IdsOf(req.shopkeepers),
                    start |-> <<req.start_latitude, req.start_longitude>>,
                    planner |-> TRUE, called |-> TRUE, outcome |-> outcome])
    /\ UNCHANGED <<hits, misses, invalidations, now, assignments, configVars, plan, nominatim>>

\* mutation of assign_shopkeeper: no look for an active assignment of the
\* shopkeeper
assign_shopkeeper_unchecked(seller_id, shopkeeper_id) ==
    IF seller_id \notin SellerIds \/ shopkeeper_id \notin DOMAIN Shopkeepers
    THEN /\ last' = [op |-> "assign", status |-> 404, committed |-> FALSE, affected |-> {}]
         /\ UNCHANGED <<cacheVars, now, serviceVars, configVars, plan, nominatim>>
    ELSE /\ Len(assignments) < MaxAssignments
         /\ invalidations < MaxCount
         /\ assignments' = Append(assignments,
                [seller_id |-> seller_id, shopkeeper_id |-> shopkeeper_id, is_active |-> TRUE])
         /\ cache' = invalidate_seller(cache, seller_id)
         /\ invalidations' = invalidations + (Len(cache) - Len(cache'))
         /\ hit_age' = KeepHitAge(Keys(cache'))
         /\ last' = [op |-> "assign", status |-> 201, committed |-> TRUE,
                     affected |-> {seller_id}]
         /\ UNCHANGED <<hits, misses, now, inflight, request_count, configVars, plan, nominatim>>

\* POST /assign
assign_shopkeeper(seller_id, shopkeeper_id) ==
    IF seller_id \notin SellerIds \/ shopkeeper_id \notin DOMAIN Shopkeepers
    THEN /\ last' = [op |-> "assign", status |-> 404, committed |-> FALSE, affected |-> {}]
         /\ UNCHANGED <<cacheVars, now, serviceVars, configVars, plan, nominatim>>
    ELSE IF \E a \in ActiveRows : assignments[a].shopkeeper_id = shopkeeper_id
    THEN /\ last' = [op |-> "assign", status |-> 400, committed |-> FALSE, affected |-> {}]
         /\ UNCHANGED <<cacheVars, now, serviceVars, configVars, plan, nominatim>>
    ELSE /\ Len(assignments) < MaxAssignments
         /\ invalidations < MaxCount
         /\ assignments' = Append(assignments,
                [seller_id |-> seller_id, shopkeeper_id |-> shopkeeper_id, is_active |-> TRUE])
         /\ cache' = invalidate_seller(cache, seller_id)
         /\ invalidations' = invalidations + (Len(cache) - Len(cache'))
         /\ hit_age' = KeepHitAge(Keys(cache'))
         /\ last' = [op |-> "assign", status |-> 201, committed |-> TRUE,
                     affected |-> {seller_id}]
         /\ UNCHANGED <<hits, misses, now, inflight, request_count, configVars, plan, nominatim>>

\* POST /reassign
reassign_shopkeeper(shopkeeper_id, new_seller_id) ==
    IF ~\E a \in ActiveRows : assignments[a].shopkeeper_id = shopkeeper_id
    THEN /\ last' = [op |-> "reassign", status |-> 404, committed |-> FALSE, affected |-> {}]
         /\ UNCHANGED <<cacheVars, now, serviceVars, configVars, plan, nominatim>>
    ELSE IF new_seller_id \notin SellerIds
    THEN /\ last' = [op |-> "reassign", status |-> 404, committed |-> FALSE, affected |-> {}]
         /\ UNCHANGED <<cacheVars, now, serviceVars, configVars, plan, nominatim>>
    ELSE \E current \in {a \in ActiveRows : assignments[a].shopkeeper_id = shopkeeper_id} :
            LET old_seller_id == assignments[current].seller_id
                c1 == invalidate_seller(cache, old_seller_id)
                c2 == invalidate_seller(c1, new_seller_id)
            IN  /\ Len(assignments) < MaxAssignments
                /\ invalidations < MaxCount
                /\ assignments' = Append([assignments EXCEPT ![current].is_active = FALSE],
                       [seller_id |-> new_seller_id, shopkeeper_id |-> shopkeeper_id,
                        is_active |-> TRUE])
                /\ cache' = c2
                /\ invalidations' = invalidations + (Len(cache) - Len(c2))
                /\ hit_age' = KeepHitAge(Keys(cache'))
                /\ last' = [op |-> "reassign", status |-> 200, committed |-> TRUE,
                            affected |-> {old_seller_id, new_seller_id}]
                /\ UNCHANGED <<hits, misses, now, inflight, request_count, configVars, plan, nominatim>>

(* DELETE /assignments/{assignment_id}.  After db.commit() the handler     *)
(* evaluates route_cache.invalidate_seller(seller_id) with seller_id a     *)
(* name that is bound nowhere: NameError, the request ends in status 500   *)
(* with the row already committed and the cache as it was.                 *)
unassign_shopkeeper(assignment_id) ==
    IF assignment_id \notin 1..Len(assignments)
    THEN /\ last' = [op |-> "unassign", status |-> 404, committed |-> FALSE, affected |-> {}]
         /\ UNCHANGED <<cacheVars, now, serviceVars, configVars, plan, nominatim>>
    ELSE /\ assignments' = [assignments EXCEPT ![assignment_id].is_active = FALSE]
         /\ last' = [op |-> "unassign", status |-> 500, committed |-> TRUE,
                     affected |-> {assignments[assignment_id].seller_id}]
         /\ UNCHANGED <<cacheVars, now, inflight, request_count, hit_age, configVars, plan, nominatim>>

\* POST /routes/cache/clear
clear_cache(role) ==
    IF role # "ADMIN"
    THEN /\ last' = [op |-> "clear_cache", status |-> 403]
         /\ UNCHANGED <<cacheVars, now, serviceVars, configVars, plan, nominatim>>
    ELSE /\ invalidations < MaxCount
         /\ cache' = <<>>
         /\ invalidations' = invalidations + Len(cache)
         /\ hit_age' = KeepHitAge(Keys(cache'))
         /\ last' = [op |-> "clear_cache", status |-> 200]
         /\ UNCHANGED <<hits, misses, now, assignments, inflight, request_count, configVars, plan, nominatim>>

\* DELETE /routes/cache/seller/{seller_id}
invalidate_seller_cache(seller_id) ==
    /\ invalidations < MaxCount
    /\ cache' = invalidate_seller(cache, seller_id)
    /\ invalidations' = invalidations + (Len(cache) - Len(cache'))
    /\ hit_age' = KeepHitAge(Keys(cache'))
    /\ last' = [op |-> "invalidate_seller_cache", status |-> 200, seller_id |-> seller_id]
    /\ UNCHANGED <<hits, misses, now, assignments, inflight, request_count, configVars, plan, nominatim>>

(* The configurations the routes module can run under: the value of       *)
(* settings.OPENROUTE_ENABLED and the client object, absent, without an    *)
(* API key or with one.  Fixed for a run.                                  *)
Configurations ==
    {<<FALSE, "key">>, <<TRUE, "none">>, <<TRUE, "nokey">>, <<TRUE, "key">>}

(* All endpoints of the service, from an empty assignment table, with all  *)
(* requests served within one tick of the clock.                           *)
ServiceInit ==
    /\ InitCache
    /\ InitService
    /\ \E cfg \in {<<FALSE, "key">>, <<TRUE, "key">>} :
          /\ OPENROUTE_ENABLED = cfg[1]
          /\ openroute_client = cfg[2]
    /\ last = [op |-> "init"]

\* the shopkeepers the assignment requests name: an active and an inactive one
AssignedIds == {1, 3}

\* the (seller_id, shopkeeper_id) pairs of the route requests: one id, or none
RequestIds ==
    {<<s, 0>> : s \in SellerIds \cup {0, UnknownSellerId}} \cup {<<0, k>> : k \in {1, 3}}

\* GET /routes/optimize with the ids of ids and a start drawn from starts
RouteRequests(ids, starts) ==
    \E id \in ids, start \in starts, f \in BOOLEAN :
        optimize_route(id[1], id[2], start[1], start[2], f)

RouteResumes ==
    \E req \in inflight, outcome \in HttpOutcomes : optimize_route_resume(req, outcome)

ServiceNext ==
    \/ RouteRequests(RequestIds, {<< <<>>, <<>> >>})
    \/ RouteResumes
    \/ \E s \in SellerIds \cup {UnknownSellerId},
          k \in AssignedIds \cup {UnknownShopkeeperId} : assign_shopkeeper(s, k)
    \/ \E k \in AssignedIds, s \in SellerIds \cup {UnknownSellerId} :
            reassign_shopkeeper(k, s)
    \/ \E a \in 1..(Len(assignments) + 1) : unassign_shopkeeper(a)
    \/ \E role \in {"ADMIN", "SELLER"} : clear_cache(role)
    \/ \E s \in SellerIds : invalidate_seller_cache(s)

ServiceSpec == ServiceInit /\ [][ServiceNext]_vars

(* The route endpoints over time, on an assignment table that stays as the *)
(* process found it: seller 1 with two stops, seller 2 with none.          *)
InitialTable ==
    <<[seller_id |-> 1, shopkeeper_id |-> 1, is_active |-> TRUE],
      [seller_id |-> 1, shopkeeper_id |-> 2, is_active |-> TRUE]>>

RouteInit ==
    /\ InitCache
    /\ assignments = InitialTable
    /\ inflight = {}
    /\ request_count = 0
    /\ hit_age = <<>>
    /\ plan = NoPlan
    /\ nominatim = NewNominatimClient
    /\ \E cfg \in Configurations :
          /\ OPENROUTE_ENABLED = cfg[1]
          /\ openroute_client = cfg[2]
    /\ last = [op |-> "init"]

\* requests for the route of seller 1, and cache administration by an admin
RouteNext ==
    \/ RouteRequests({<<1, 0>>}, StartOptions)
    \/ RouteResumes
    \/ clear_cache("ADMIN")
    \/ \E s \in SellerIds : invalidate_seller_cache(s)
    \/ Tick

RouteSpec == RouteInit /\ [][RouteNext]_vars

(* The route requests of two sellers with one stop each, over time: the    *)
(* cache holds up to one entry per seller.                                 *)
TwoSellerTable ==
    <<[seller_id |-> 1, shopkeeper_id |-> 1, is_active |-> TRUE],
      [seller_id |-> 2, shopkeeper_id |-> 2, is_active |-> TRUE]>>

ForceInit ==
    /\ InitCache
    /\ assignments = TwoSellerTable
    /\ inflight = {}
    /\ request_count = 0
    /\ hit_age = <<>>
    /\ plan = NoPlan
    /\ nominatim = NewNominatimClient
    /\ \E cfg \in {<<FALSE, "key">>, <<TRUE, "key">>} :
          /\ OPENROUTE_ENABLED = cfg[1]
          /\ openroute_client = cfg[2]
    /\ last = [op |-> "init"]

ForceNext ==
    \/ RouteRequests({<<1, 0>>, <<2, 0>>}, {<< <<>>, <<>> >>})
    \/ RouteResumes
    \/ Tick

ForceSpec == ForceInit /\ [][ForceNext]_vars

(* Route requests of seller 1 whose start lies outside the coordinate     *)
(* ranges: latitude beyond 90 degrees, longitude beyond 180, or both.     *)
OutOfRangeStarts ==
    {<< <<91>>, <<4>> >>, << <<1>>, <<181>> >>, << <<-91>>, <<-181>> >>}

StartNext ==
    \/ RouteRequests({<<1, 0>>}, OutOfRangeStarts)
    \/ RouteResumes

StartSpec == RouteInit /\ [][StartNext]_vars

----------------------------------------------------------------------------
(* One call of calculate_optimized_route_with_api, followed statement by   *)
(* statement: the arguments are drawn at Init, plan is the frame.          *)

\* the stop lists of a call: rows of "shopkeepers", no row twice
PlanStopLists ==
    {[i \in 1..Len(q) |-> Shopkeepers[q[i]]] :
        q \in {r \in SeqsUpTo(DOMAIN Shopkeepers, MaxStops) :
                  \A i, j \in 1..Len(r) : r[i] = r[j] => i = j}}

\* the starts of a call: those of StartOptions, one on the equator, one four
\* degrees from the nearest stop, and one whose latitude is nan
PlanStarts ==
    StartOptions \cup {<< <<0>>, <<3>> >>, << <<1>>, <<7>> >>, << <<NaN>>, <<4>> >>}

\* the frame on entry
NewPlan(shopkeepers, start_lat, start_lon) ==
    [pc |-> "call", shopkeepers |-> shopkeepers,
     start_lat |-> start_lat, start_lon |-> start_lon,
     unvisited |-> <<>>, route |-> <<>>, current_lat |-> 0, current_lon |-> 0,
     cumulative_distance |-> 0, algorithm_used |-> "none"]

\* mutation of nn_enter: the start is ignored, the first stop opens the route
nn_enter_ignores_start(f) ==
    IF f.shopkeepers = <<>>
    THEN [f EXCEPT !.pc = "done", !.route = <<>>]
    ELSE LET first == Head(f.shopkeepers)
         IN  [f EXCEPT !.pc = "loop",
                       !.unvisited = Tail(f.shopkeepers),
                       !.route = <<[shopkeeper |-> first.id, order |-> 1,
                                    distance_from_previous |-> 0,
                                    cumulative_distance |-> 0]>>,
                       !.current_lat = first.latitude,
                       !.current_lon = first.longitude,
                       !.cumulative_distance = 0]

\* nearest_neighbor_route from its first statement to the head of the loop
nn_enter(f) ==
    IF f.shopkeepers = <<>>
    THEN [f EXCEPT !.pc = "done", !.route = <<>>]
    ELSE IF Truthy(f.start_lat) /\ Truthy(f.start_lon)
    THEN [f EXCEPT !.pc = "loop",
                   !.unvisited = f.shopkeepers,
                   !.route = <<>>,
                   !.current_lat = f.start_lat[1],
                   !.current_lon = f.start_lon[1],
                   !.cumulative_distance = 0]
    ELSE LET first == Head(f.shopkeepers)
         IN  [f EXCEPT !.pc = "loop",
                       !.unvisited = Tail(f.shopkeepers),
                       !.route = <<[shopkeeper |-> first.id, order |-> 1,
                                    distance_from_previous |-> 0,
                                    cumulative_distance |-> 0]>>,
                       !.current_lat = first.latitude,
                       !.current_lon = first.longitude,
                       !.cumulative_distance = 0]

\* mutation of nn_iterate: the order of a leg is the count of the legs before
nn_iterate_zero_based(f) ==
    LET i == Nearest(f.unvisited, f.current_lat, f.current_lon)
    IN  IF i = 0 THEN [f EXCEPT !.pc = "loop"]
        ELSE LET nearest == f.unvisited[i]
                 min_distance == calculate_distance(f.current_lat, f.current_lon,
                                                    nearest.latitude, nearest.longitude)
                 cumulative == f.cumulative_distance + min_distance
             IN  [f EXCEPT !.pc = "loop",
                           !.unvisited = RemoveAt(f.unvisited, i),
                           !.route = Append(f.route,
                               [shopkeeper |-> nearest.id,
                                order |-> Len(f.route),
                                distance_from_previous |-> round2(min_distance),
                                cumulative_distance |-> round2(cumulative)]),
                           !.current_lat = nearest.latitude,
                           !.current_lon = nearest.longitude,
                           !.cumulative_distance = cumulative]

\* mutation of nn_iterate: the running sum adds up the rounded legs
nn_iterate_sums_rounded(f) ==
    LET i == Nearest(f.unvisited, f.current_lat, f.current_lon)
    IN  IF i = 0 THEN [f EXCEPT !.pc = "loop"]
        ELSE LET nearest == f.unvisited[i]
                 min_distance == calculate_distance(f.current_lat, f.current_lon,
                                                    nearest.latitude, nearest.longitude)
                 cumulative == f.cumulative_distance + 10 * round2(min_distance)
             IN  [f EXCEPT !.pc = "loop",
                           !.unvisited = RemoveAt(f.unvisited, i),
                           !.route = Append(f.route,
                               [shopkeeper |-> nearest.id,
                                order |-> Len(f.route) + 1,
                                distance_from_previous |-> round2(min_distance),
                                cumulative_distance |-> round2(cumulative)]),
                           !.current_lat = nearest.latitude,
                           !.current_lon = nearest.longitude,
                           !.cumulative_distance = cumulative]

\* one pass of the body of "while unvisited", back to the head of the loop;
\* when the scan leaves nearest at None, "if nearest:" skips the rest and
\* nothing but the position in the code has changed
nn_iterate(f) ==
    LET i == Nearest(f.unvisited, f.current_lat, f.current_lon)
    IN  IF i = 0 THEN [f EXCEPT !.pc = "loop"]
        ELSE LET nearest == f.unvisited[i]
                 min_distance == calculate_distance(f.current_lat, f.current_lon,
                                                    nearest.latitude, nearest.longitude)
                 cumulative == f.cumulative_distance + min_distance
             IN  [f EXCEPT !.pc = "loop",
                           !.unvisited = RemoveAt(f.unvisited, i),
                           !.route = Append(f.route,
                               [shopkeeper |-> nearest.id,
                                order |-> Len(f.route) + 1,
                                distance_from_previous |-> round2(min_distance),
                                cumulative_distance |-> round2(cumulative)]),
                           !.current_lat = nearest.latitude,
                           !.current_lon = nearest.longitude,
                           !.cumulative_distance = cumulative]

PlanInit ==
    /\ InitCache
    /\ assignments = <<>>
    /\ inflight = {}
    /\ request_count = 0
    /\ hit_age = <<>>
    /\ \E cfg \in Configurations :
          /\ OPENROUTE_ENABLED = cfg[1]
          /\ openroute_client = cfg[2]
    /\ last = [op |-> "init"]
    /\ plan \in {NewPlan(q, start[1], start[2]) : q \in PlanStopLists, start \in PlanStarts}
    /\ nominatim = NewNominatimClient

\* calculate_optimized_route_with_api up to the call of the planner or of
\* client.post
PlanCall ==
    /\ plan.pc = "call"
    /\ plan' = IF ApiNotConfigured
               THEN [plan EXCEPT !.pc = "nearest_neighbor_route",
                                 !.algorithm_used = "haversine"]
               ELSE IF openroute_client = "nokey"
               THEN [plan EXCEPT !.pc = "nearest_neighbor_route",
                                 !.algorithm_used = "haversine_fallback"]
               ELSE [plan EXCEPT !.pc = "get_route"]
    /\ UNCHANGED <<cacheVars, now, serviceVars, configVars, last, nominatim>>

\* the HTTP exchange of get_route ends in outcome, at the latest when the
\* 30 s timeout of the client expires
PlanHttp(outcome) ==
    /\ plan.pc = "get_route"
    /\ request_count' = IF outcome \in CountedOutcomes
                        THEN request_count + 1 ELSE request_count
    /\ plan' = IF get_route_result(outcome) = None
               THEN [plan EXCEPT !.pc = "nearest_neighbor_route",
                                 !.algorithm_used = "haversine_fallback"]
               ELSE [plan EXCEPT !.pc = "done",
                                 !.route = ApiRouteLoop(plan.shopkeepers, 1,
                                               plan.start_lat, plan.start_lon,
                                               [route |-> <<>>, cumulative_distance |-> 0]),
                                 !.algorithm_used = "openrouteservice"]
    /\ UNCHANGED <<cacheVars, now, assignments, inflight, hit_age, configVars, last, nominatim>>

\* nearest_neighbor_route is entered
PlanEnter ==
    /\ plan.pc = "nearest_neighbor_route"
    /\ plan' = nn_enter(plan)
    /\ UNCHANGED <<cacheVars, now, serviceVars, configVars, last, nominatim>>

\* "while unvisited" is true: the body is entered
PlanWhile ==
    /\ plan.pc = "loop"
    /\ plan.unvisited # <<>>
    /\ plan' = [plan EXCEPT !.pc = "body"]
    /\ UNCHANGED <<cacheVars, now, serviceVars, configVars, last, nominatim>>

\* one pass of the body
PlanIterate ==
    /\ plan.pc = "body"
    /\ plan' = nn_iterate(plan)
    /\ UNCHANGED <<cacheVars, now, serviceVars, configVars, last, nominatim>>

\* "while unvisited" is false: return route
PlanReturn ==
    /\ plan.pc = "loop"
    /\ plan.unvisited = <<>>
    /\ plan' = [plan EXCEPT !.pc = "done"]
    /\ UNCHANGED <<cacheVars, now, serviceVars, configVars, last, nominatim>>

PlanNext ==
    \/ PlanCall
    \/ \E outcome \in HttpOutcomes : PlanHttp(outcome)
    \/ PlanEnter
    \/ PlanWhile
    \/ PlanIterate
    \/ PlanReturn

PlanSpec == PlanInit /\ [][PlanNext]_vars

(* The same call in a process that keeps running: a statement that can be  *)
(* executed is executed, and the exchange with the API ends, by the        *)
(* timeout of the client if by nothing else.                               *)
PlanLiveSpec == PlanSpec /\ WF_vars(PlanNext)

----------------------------------------------------------------------------
(* The Nominatim client: nominatim_client.py.  Callers are request         *)
(* handlers on one event loop; a coroutine runs from one await to the      *)
(* next without interruption.                                              *)

\* _rate_limit from "self._last_request_time = ..." to its end, and the
\* method that called it up to "await client.get(...)": the request goes out
send_request(n, c, method) ==
    [n EXCEPT !._last_request_time = n.clock,
              !._request_count = n._request_count + 1,
              !.calls[c] = [pc |-> "get", method |-> method],
              !.sent = Append(n.sent, n.clock)]

\* the callers suspended in "await asyncio.sleep(sleep_time)"
Sleepers == {c \in Callers : nominatim.calls[c].pc = "sleep"}

\* caller c enters geocode, reverse_geocode or search_place, which starts
\* with "await self._rate_limit()": up to the sleep when the last request is
\* less than a second old, up to the request otherwise
NominatimCall(c, method) ==
    /\ nominatim.calls[c].pc = "idle"
    /\ nominatim._request_count + Cardinality(Sleepers) < MaxSends
    /\ LET current_time == nominatim.clock
           time_since_last == current_time - nominatim._last_request_time
       IN  nominatim' =
               IF time_since_last < OneSecond
               THEN [nominatim EXCEPT !.calls[c] =
                        [pc |-> "sleep", method |-> method,
                         wake |-> current_time + (OneSecond - time_since_last)]]
               ELSE send_request(nominatim, c, method)
    /\ UNCHANGED <<cacheVars, now, serviceVars, configVars, plan, last>>

\* asyncio.sleep returns to caller c, not before sleep_time has passed
NominatimWake(c) ==
    /\ nominatim.calls[c].pc = "sleep"
    /\ nominatim.clock >= nominatim.calls[c].wake
    /\ nominatim' = send_request(nominatim, c, nominatim.calls[c].method)
    /\ UNCHANGED <<cacheVars, now, serviceVars, configVars, plan, last>>

\* the exchange of caller c ends (a response, a timeout or an error) and
\* the method returns
NominatimReturn(c) ==
    /\ nominatim.calls[c].pc = "get"
    /\ nominatim' = [nominatim EXCEPT !.calls[c] = [pc |-> "idle"]]
    /\ UNCHANGED <<cacheVars, now, serviceVars, configVars, plan, last>>

\* half a second passes on the clock the client reads
NominatimTick ==
    /\ nominatim.clock < MaxClock
    /\ nominatim' = [nominatim EXCEPT !.clock = nominatim.clock + 1]
    /\ UNCHANGED <<cacheVars, now, serviceVars, configVars, plan, last>>

NominatimInit ==
    /\ InitCache
    /\ InitService
    /\ OPENROUTE_ENABLED = FALSE
    /\ openroute_client = "none"
    /\ last = [op |-> "init"]

NominatimNext ==
    \/ \E c \in Callers, method \in Methods : NominatimCall(c, method)
    \/ \E c \in Callers : NominatimWake(c)
    \/ \E c \in Callers : NominatimReturn(c)
    \/ NominatimTick

NominatimSpec == NominatimInit /\ [][NominatimNext]_vars

----------------------------------------------------------------------------
(* The response of optimize_route on its own: the route is drawn at Init   *)

\* the lengths of a leg, in hundredths of a kilometre
LegLengths == {0, 1, 3, 7, 60, 500}

\* a route of n legs of length d each, as the planner returns it
EvenRoute(n, d) ==
    [i \in 1..n |-> [shopkeeper |-> i, order |-> i,
                     distance_from_previous |-> d, cumulative_distance |-> i * d]]

StatInit ==
    /\ InitCache
    /\ InitService
    /\ OPENROUTE_ENABLED = FALSE
    /\ openroute_client = "none"
    /\ last \in {[op |-> "route", optimized_route |-> EvenRoute(n, d)] :
                    n \in 0..MaxLegs, d \in LegLengths}

\* optimize_route from "Construir respuesta" to response_data, for seller 1
StatBuild ==
    /\ last.op = "route"
    /\ last' = [op |-> "build_response", optimized_route |-> last.optimized_route,
                response |-> build_response(1, last.optimized_route, "haversine")]
    /\ UNCHANGED <<cacheVars, now, serviceVars, configVars, plan, nominatim>>

StatNext == StatBuild

StatSpec == StatInit /\ [][StatNext]_vars

----------------------------------------------------------------------------
(* The key function on its own: arguments drawn from IdLists *)

KeyInit ==
    /\ InitCache
    /\ InitService
    /\ OPENROUTE_ENABLED = FALSE
    /\ openroute_client = "none"
    /\ last \in {[op |-> "args", seller_id |-> s, shopkeeper_ids |-> p] :
                    s \in SellerIds, p \in IdLists}

\* key = self._generate_key(seller_id, shopkeeper_ids)
KeyGenerate ==
    /\ last.op = "args"
    /\ last' = [op |-> "_generate_key", seller_id |-> last.seller_id,
                shopkeeper_ids |-> last.shopkeeper_ids,
                result |-> _generate_key(last.seller_id, last.shopkeeper_ids)]
    /\ UNCHANGED <<cacheVars, now, serviceVars, configVars, plan, nominatim>>

\* route_cache.set(S, P, route) on the empty cache
KeyPut ==
    /\ last.op = "args"
    /\ cache' = set(cache, last.seller_id, last.shopkeeper_ids,
                    SampleRoute(last.seller_id, last.shopkeeper_ids), now)
    /\ last' = [op |-> "put", seller_id |-> last.seller_id,
                shopkeeper_ids |-> last.shopkeeper_ids]
    /\ UNCHANGED <<hits, misses, invalidations, now, serviceVars, configVars, plan, nominatim>>

\* route_cache.get(S, Q) right after the put of (S, P)
KeyGet(shopkeeper_ids) ==
    /\ last.op = "put"
    /\ LET r == get(cache, hits, misses, last.seller_id, shopkeeper_ids, now)
       IN  /\ cache' = r.cache
           /\ hits' = r.hits
           /\ misses' = r.misses
           /\ last' = [op |-> "get_after_put", seller_id |-> last.seller_id,
                       shopkeeper_ids |-> shopkeeper_ids,
                       put_ids |-> last.shopkeeper_ids, result |-> r.result]
    /\ UNCHANGED <<invalidations, now, serviceVars, configVars, plan, nominatim>>

KeyNext ==
    \/ KeyGenerate
    \/ KeyPut
    \/ \E q \in IdLists : KeyGet(q)

KeySpec == KeyInit /\ [][KeyNext]_vars

\* how often x occurs in s
Count(x, s) == Cardinality({i \in 1..Len(s) : s[i] = x})

SameMultiset(p, q) == \A x \in Elems(p) \cup Elems(q) : Count(x, p) = Count(x, q)

----------------------------------------------------------------------------
(* Claims *)

\* C1: the key of (S, P) is the key of (S, P') for every reordering P' of P,
\* and a route put under (S, P) is returned by get(S, P') for every such P'.
C1_KeyOrderIndependent ==
    /\ last.op = "_generate_key" =>
          \A q \in Reorderings(last.shopkeeper_ids) :
              _generate_key(last.seller_id, q) = last.result
    /\ (last.op = "get_after_put" /\ last.shopkeeper_ids \in Reorderings(last.put_ids)) =>
          last.result = SampleRoute(last.seller_id, last.put_ids)

\* a get with a genuinely reordered list found the route that was put
C1_Witness ==
    /\ last.op = "get_after_put"
    /\ last.shopkeeper_ids \in Reorderings(last.put_ids)
    /\ last.shopkeeper_ids # last.put_ids
    /\ last.result # None

\* C2 as claimed: lists with the same distinct ids have the same key,
\* however often an id is repeated.
C2_KeyOfIdSet ==
    last.op = "_generate_key" =>
        \A q \in IdLists :
            Elems(q) = Elems(last.shopkeeper_ids) =>
                _generate_key(last.seller_id, q) = last.result

\* C2 amended: the key is decided by the seller id and the multiset of ids;
\* lists that repeat an id a different number of times have different keys.
C2_KeyOfIdMultiset ==
    last.op = "_generate_key" =>
        \A s \in SellerIds, q \in IdLists :
            (_generate_key(s, q) = last.result)
                <=> (s = last.seller_id /\ SameMultiset(q, last.shopkeeper_ids))

\* a key was computed for a list that repeats an id
C2_Witness ==
    /\ last.op = "_generate_key"
    /\ \E x \in Elems(last.shopkeeper_ids) : Count(x, last.shopkeeper_ids) > 1
    /\ Cardinality(Elems(last.shopkeeper_ids)) > 1

\* C3: the lifetime of an entry runs from its creation: set stamps the entry
\* with the current time, no other call changes the stamp or the data of an
\* entry that stays, a get younger than the TTL returns the stored route and
\* keeps the entry, and a get at age >= TTL returns absent and drops the entry.
C3_TtlFromCreation ==
    [][
        /\ last'.op = "set" =>
              LET i == IndexOf(cache', _generate_key(last'.seller_id, last'.shopkeeper_ids))
              IN  /\ i # 0
                  /\ cache'[i].timestamp = now
                  /\ cache'[i].data = SampleRoute(last'.seller_id, last'.shopkeeper_ids)
        /\ last'.op # "set" =>
              \A i \in 1..Len(cache), j \in 1..Len(cache') :
                  cache[i].key = cache'[j].key =>
                      /\ cache'[j].timestamp = cache[i].timestamp
                      /\ cache'[j].data = cache[i].data
        /\ last'.op = "get" =>
              LET key == _generate_key(last'.seller_id, last'.shopkeeper_ids)
                  i == IndexOf(cache, key)
              IN  i # 0 =>
                      IF now - cache[i].timestamp < ttl
                      THEN /\ last'.result = cache[i].data
                           /\ key \in Keys(cache')
                      ELSE /\ last'.result = None
                           /\ key \notin Keys(cache')
    ]_vars

\* an entry that had been hit after its creation expired all the same
C3_Witness ==
    /\ last.op = "get"
    /\ last.expired
    /\ last.touched
    /\ last.result = None

\* C4: a set of a new key into a full cache removes exactly one entry, one
\* whose last access is the oldest; every other entry stays as it was.
C4_EvictsLeastRecentlyUsed ==
    [][
        (/\ last'.op = "set"
         /\ Len(cache) = max_size
         /\ _generate_key(last'.seller_id, last'.shopkeeper_ids) \notin Keys(cache)) =>
            \E i \in 1..Len(cache) :
                /\ \A j \in 1..Len(cache) : cache[i].last_access <= cache[j].last_access
                /\ cache[i].key \notin Keys(cache')
                /\ \A j \in 1..Len(cache) : j # i => cache[j] \in Range(cache')
                /\ Len(cache') = max_size
    ]_vars

\* the evicted entry was the least recently used although the newest created
C4_Witness ==
    /\ last.op = "set"
    /\ last.full
    /\ ~last.present
    /\ last.lru_is_newest

\* C5: invalidate_seller(A) removes every entry of A and leaves every entry
\* of another seller in place, unchanged.
C5_InvalidateSellerScope ==
    [][
        last'.op = "invalidate_seller" =>
            Range(cache') = {e \in Range(cache) : e.seller_id # last'.seller_id}
    ]_vars

\* an invalidation removed entries while another seller's entry was cached
C5_Witness ==
    /\ last.op = "invalidate_seller"
    /\ last.owned >= 1
    /\ last.others >= 1
    /\ Len(cache) = last.others

\* C6 as claimed: when an assign, reassign or unassign request has committed
\* its change, the cache holds no entry of a seller the change affects.
C6_CommitInvalidatesAffected ==
    (last.op \in {"assign", "reassign", "unassign"} /\ last.committed) =>
        \A e \in Range(cache) : e.seller_id \notin last.affected

\* the elements of a set of numbers, in ascending order
RECURSIVE Ascending(_)
Ascending(S) ==
    IF S = {} THEN <<>>
    ELSE LET least == CHOOSE x \in S : \A y \in S : x <= y
         IN  <<least>> \o Ascending(S \ {least})

\* the ids of the stops the seller has at this moment: active assignments
\* of the seller to active shopkeepers
CurrentStops(seller_id) ==
    Ascending({assignments[i].shopkeeper_id : i \in RouteRows(seller_id)})

\* the step is an optimize_route request that got as far as the cache
RouteStep == last'.op = "optimize_route" /\ last'.status \in {0, 200}

\* the step is an optimize_route request returning a route it has planned,
\* at once or after the HTTP exchange
RouteDone ==
    /\ last'.op \in {"optimize_route", "optimize_route_resume"}
    /\ last'.status = 200
    /\ last'.planner

\* the step is an optimize_route request, not forced, for a seller whose
\* current stops have an entry younger than the TTL
HitExpected ==
    /\ RouteStep
    /\ ~last'.force
    /\ LET i == IndexOf(cache, _generate_key(last'.seller_id, CurrentStops(last'.seller_id)))
       IN  i # 0 /\ now - cache[i].timestamp < ttl

\* the step returns the cached route, marked, and plans nothing: the entry
\* keeps its stamp, no coroutine is suspended and no request is sent
ServedFromCache ==
    LET key == _generate_key(last'.seller_id, CurrentStops(last'.seller_id))
        i == IndexOf(cache, key)
        j == IndexOf(cache', key)
    IN  /\ last'.status = 200
        /\ ~last'.planner
        /\ ~last'.called
        /\ j # 0
        /\ cache'[j].timestamp = cache[i].timestamp
        /\ cache'[j].data = [cache[i].data EXCEPT
               !.from_cache = TRUE,
               !.cache_age_minutes = ((now - cache[i].timestamp) * SecondsPerTick) \div 60]
        /\ inflight' = inflight
        /\ request_count' = request_count

\* C7: a request that is not forced, for a seller whose current stops have a
\* non-expired entry, returns the cached route marked from_cache = TRUE with
\* no planner run and no API call; a freshly computed result is marked
\* from_cache = FALSE.
C7_HitServedFromCache ==
    [][
        /\ HitExpected => ServedFromCache
        /\ RouteDone =>
              LET j == IndexOf(cache', _generate_key(last'.seller_id, last'.shopkeeper_ids))
              IN  /\ j # 0
                  /\ cache'[j].data.from_cache = FALSE
                  /\ cache'[j].data.cache_age_minutes = NoAge
    ]_vars

\* a route obtained from the API was served again from the cache, a minute
\* old, with no second request sent
C7_Witness ==
    /\ last.op = "optimize_route"
    /\ last.status = 200
    /\ ~last.planner
    /\ OPENROUTE_ENABLED
    /\ openroute_client = "key"
    /\ request_count = 1
    /\ inflight = {}
    /\ \E e \in Range(cache) :
          /\ e.key = _generate_key(last.seller_id, last.shopkeeper_ids)
          /\ e.data.from_cache
          /\ e.data.cache_age_minutes = 1
          /\ e.data.algorithm_used = "openrouteservice"
          /\ Len(e.data.route_points) = 2

\* the miss path (and the forced one) leaves the route in the cache under
\* the key of the request, stamped with the current time
MissStoresEntry ==
    RouteDone =>
        LET j == IndexOf(cache', _generate_key(last'.seller_id, last'.shopkeeper_ids))
        IN  j # 0 /\ cache'[j].timestamp = now

\* an entry leaves the cache only when it is invalidated, found expired by
\* a request for its key, or evicted by a store into a full cache
EntryStaysUnlessRemoved ==
    \A i \in 1..Len(cache) :
        cache[i].key \notin Keys(cache') =>
            \/ last'.op \in {"clear_cache", "invalidate_seller_cache", "assign", "reassign"}
            \/ /\ RouteStep
               /\ now - cache[i].timestamp >= ttl
               /\ cache[i].key = _generate_key(last'.seller_id, last'.shopkeeper_ids)
            \/ RouteDone /\ Len(cache) >= max_size

\* the step is a hit for a key that was hit before, with no invalidation,
\* eviction or expiry of the key since
RepeatedHit ==
    /\ RouteStep
    /\ last'.status = 200
    /\ ~last'.planner
    /\ _generate_key(last'.seller_id, last'.shopkeeper_ids) \in DOMAIN hit_age

\* the age the hit of this step reports is not below the one of the hit before
AgeNotBelowLastHit ==
    LET key == _generate_key(last'.seller_id, last'.shopkeeper_ids)
    IN  cache'[IndexOf(cache', key)].data.cache_age_minutes >= hit_age[key].age

\* C8 as claimed: after a miss path completed, the same request is a hit for
\* as long as the entry is neither invalidated nor evicted nor expired, and
\* the age a hit reports is never below the age the hit before it reported.
C8_RepeatHitAgeNeverDecreases ==
    [][
        /\ MissStoresEntry
        /\ EntryStaysUnlessRemoved
        /\ HitExpected => ServedFromCache
        /\ RepeatedHit => AgeNotBelowLastHit
    ]_vars

\* C8 amended: as C8, with the ages compared only between hits on the same
\* stored entry; an entry stored again (forced recalculation, or a miss path
\* that finishes later) starts at age 0.
C8_RepeatHitAgeOfSameEntry ==
    [][
        /\ MissStoresEntry
        /\ EntryStaysUnlessRemoved
        /\ HitExpected => ServedFromCache
        /\ (/\ RepeatedHit
            /\ LET key == _generate_key(last'.seller_id, last'.shopkeeper_ids)
               IN  hit_age[key].created = cache[IndexOf(cache, key)].timestamp)
              => AgeNotBelowLastHit
        /\ (RepeatedHit /\ ~AgeNotBelowLastHit) =>
              LET key == _generate_key(last'.seller_id, last'.shopkeeper_ids)
                  j == IndexOf(cache', key)
              IN  /\ cache'[j].timestamp > hit_age[key].created
                  /\ cache'[j].data.cache_age_minutes =
                         ((now - cache'[j].timestamp) * SecondsPerTick) \div 60
    ]_vars

\* an entry stored by a miss was hit twice, a minute old at the second hit
C8_Witness ==
    /\ last.op = "optimize_route"
    /\ last.status = 200
    /\ ~last.planner
    /\ misses = 1
    /\ hits = 2
    /\ LET key == _generate_key(last.seller_id, last.shopkeeper_ids)
       IN  /\ key \in DOMAIN hit_age
           /\ hit_age[key].age = 1
           /\ hit_age[key].created = 0

\* the entry of the last route request, absent when the cache has none
LastEntry ==
    LET i == IndexOf(cache, _generate_key(last.seller_id, last.shopkeeper_ids))
    IN  IF i # 0 THEN cache[i] ELSE None

\* the shopkeeper ids of the route points of a response
RouteIds(data) == [i \in 1..Len(data.route_points) |-> data.route_points[i].shopkeeper_id]

\* the last step is a route request returning a route it has planned
Planned ==
    /\ last.op \in {"optimize_route", "optimize_route_resume"}
    /\ last.status = 200
    /\ last.planner

\* the API call of the last step failed: the client has no key, or the HTTP
\* exchange ended in anything but a route
ApiFailed ==
    /\ OPENROUTE_ENABLED
    /\ \/ openroute_client = "nokey"
       \/ openroute_client = "key" /\ last.outcome \in HttpOutcomes \ {"ok"}

\* C9: when the API call fails, whatever the reason, the request ends in
\* status 200 with the geodesic nearest neighbour route over every stop of
\* the seller, each once, tagged haversine_fallback.
C9_ApiFailureFallsBack ==
    (/\ last.op \in {"optimize_route", "optimize_route_resume"}
     /\ last.status # 0
     /\ last.planner
     /\ ApiFailed) =>
        /\ last.status = 200
        /\ LastEntry # None
        /\ LastEntry.data.algorithm_used = "haversine_fallback"
        /\ SameMultiset(RouteIds(LastEntry.data), last.shopkeeper_ids)
        /\ \A i \in 1..Len(LastEntry.data.route_points) :
              LastEntry.data.route_points[i].order = i
        /\ \E q \in RouteQueryResults(last.seller_id), start \in StartOptions :
              LastEntry.data =
                  build_response(last.seller_id,
                                 nearest_neighbor_route(q, start[1], start[2]),
                                 "haversine_fallback")

\* the exchange timed out and a route over two stops was returned
C9_Witness ==
    /\ Planned
    /\ openroute_client = "key"
    /\ last.outcome = "timeout"
    /\ Len(last.shopkeeper_ids) = 2
    /\ LastEntry.data.algorithm_used = "haversine_fallback"

\* C10: the tag is openrouteservice exactly when a request was sent and
\* answered with a route, haversine exactly when the API is disabled or no
\* client exists, haversine_fallback exactly when the call failed.
C10_TagIdentifiesPath ==
    Planned =>
        LET tag == LastEntry.data.algorithm_used
        IN  /\ tag \in {"openrouteservice", "haversine", "haversine_fallback"}
            /\ tag = "openrouteservice" <=>
                  (OPENROUTE_ENABLED /\ openroute_client = "key" /\ last.outcome = "ok")
            /\ tag = "haversine" <=> (~OPENROUTE_ENABLED \/ openroute_client = "none")
            /\ tag = "haversine_fallback" <=> ApiFailed

\* a request was answered with a route and the response carries the API tag
C10_Witness ==
    /\ Planned
    /\ last.outcome = "ok"
    /\ request_count = 1
    /\ Len(last.shopkeeper_ids) = 2
    /\ LastEntry.data.algorithm_used = "openrouteservice"

\* C11: a route request that resolves to an unknown seller, or to a seller
\* with no active stop, ends in status 404 and leaves the entries of the
\* cache and the hit and miss counters as they were.
C11_NotFoundLeavesCache ==
    [][
        (/\ last'.op = "optimize_route"
         /\ last'.seller_id # 0
         /\ \/ last'.seller_id \notin SellerIds
            \/ RouteRows(last'.seller_id) = {}) =>
            /\ last'.status = 404
            /\ cache' = cache
            /\ hits' = hits
            /\ misses' = misses
    ]_vars

\* a seller whose last stop was unassigned asked for a route while the cache
\* still held the route computed before
C11_Witness ==
    /\ last.op = "optimize_route"
    /\ last.status = 404
    /\ last.seller_id \in SellerIds
    /\ hits + misses > 0
    /\ \E e \in Range(cache) : e.seller_id = last.seller_id

\* C12 as claimed: a route request whose start latitude is outside [-90, 90]
\* or whose start longitude is outside [-180, 180] is rejected with a client
\* error; no route is computed and nothing is stored for it.
C12_OutOfRangeStartRejected ==
    last.op \in {"optimize_route", "optimize_route_resume"} =>
        /\ last.status \in {400, 422}
        /\ ~last.planner
        /\ cache = <<>>
        /\ inflight = {}

\* the step is a forced route request that got past the lookups of the seller
ForcedStep ==
    /\ last'.op = "optimize_route"
    /\ last'.status \in {0, 200}
    /\ last'.force

\* the entry of the key of the step is in cache', stamped now, unmarked, the
\* only one of its key, and every other entry of cache' is one of cache
StoredAfresh ==
    LET key == _generate_key(last'.seller_id, last'.shopkeeper_ids)
        j == IndexOf(cache', key)
    IN  /\ j # 0
        /\ cache'[j].timestamp = now
        /\ cache'[j].last_access = now
        /\ cache'[j].data.from_cache = FALSE
        /\ cache'[j].data.cache_age_minutes = NoAge
        /\ \A i \in 1..Len(cache') : cache'[i].key = key => i = j
        /\ \A i \in 1..Len(cache') : i # j => cache'[i] \in Range(cache)

\* C13: a forced request does not read the cache (hit and miss counters
\* stay, no entry of another key is touched, nothing is served from the
\* cache), runs the planner, and when the route is ready stores it under the
\* key of (seller, stops) as the one entry of the key, stamped with the time
\* of the store.
C13_ForceBypassesCache ==
    [][
        /\ ForcedStep =>
              /\ hits' = hits
              /\ misses' = misses
              /\ last'.planner
              /\ IF last'.status = 200 THEN StoredAfresh ELSE cache' = cache
        /\ last'.op = "optimize_route_resume" => StoredAfresh
    ]_vars

\* a forced request replaced an entry that had been hit, while the entry of
\* the other seller stayed
C13_Witness ==
    /\ last.op = "optimize_route"
    /\ last.force
    /\ last.status = 200
    /\ hits >= 1
    /\ Len(cache) = 2
    /\ LET key == _generate_key(last.seller_id, last.shopkeeper_ids)
       IN  /\ key \in DOMAIN hit_age
           /\ hit_age[key].created < LastEntry.timestamp

\* every call of get moves exactly one counter by one: hits when the key has
\* an entry younger than the TTL, whose last access becomes now, misses
\* otherwise; no other call moves a counter
GetCountsOnce ==
    /\ last'.op = "get" =>
          LET key == _generate_key(last'.seller_id, last'.shopkeeper_ids)
              i == IndexOf(cache, key)
              j == IndexOf(cache', key)
          IN  IF i # 0 /\ now - cache[i].timestamp < ttl
              THEN /\ hits' = hits + 1
                   /\ misses' = misses
                   /\ last'.result # None
                   /\ j # 0
                   /\ cache'[j].last_access = now
              ELSE /\ hits' = hits
                   /\ misses' = misses + 1
                   /\ last'.result = None
    /\ last'.op # "get" => (hits' = hits /\ misses' = misses)

\* get_stats reports the counters as they are
StatsReportCounters ==
    last'.op = "get_stats" =>
        /\ last'.result.hits = hits
        /\ last'.result.misses = misses
        /\ last'.result.size = Len(cache)
        /\ last'.result.invalidations = invalidations
        /\ (hits + misses = 0) => last'.result.hit_rate = 0

\* C14 as claimed: get counts once, and get_stats reports the hit rate
\* hits / (hits + misses), 0 before the first get.
C14_HitRateIsExactQuotient ==
    [][
        /\ GetCountsOnce
        /\ StatsReportCounters
        /\ (last'.op = "get_stats" /\ hits + misses > 0) =>
              last'.result.hit_rate * (hits + misses) = 1000 * hits
    ]_vars

\* C14 amended: get counts once, and get_stats reports the hit rate
\* hits / (hits + misses) rounded to three decimals (the thousandth nearest
\* to the quotient), 0 before the first get.
C14_HitRateIsRoundedQuotient ==
    [][
        /\ GetCountsOnce
        /\ StatsReportCounters
        /\ (last'.op = "get_stats" /\ hits + misses > 0) =>
              LET error == last'.result.hit_rate * (hits + misses) - 1000 * hits
              IN  2 * Abs(error) <= hits + misses
    ]_vars

\* the statistics were read after one hit and two misses
C14_Witness ==
    /\ last.op = "get_stats"
    /\ hits = 1
    /\ misses = 2
    /\ last.result.hit_rate = 333

\* C15: whatever get, set, invalidate_seller and invalidate_all calls were
\* made, the cache holds at most max_size entries.
C15_SizeWithinCapacity ==
    Len(cache) <= max_size

\* a new key was stored into a full cache after hits had been served and
\* entries invalidated, and the cache is full again
C15_Witness ==
    /\ last.op = "set"
    /\ last.full
    /\ ~last.present
    /\ hits >= 1
    /\ invalidations >= 1
    /\ Len(cache) = max_size

\* nearest_neighbor_route has returned to calculate_optimized_route_with_api
NNReturned ==
    /\ plan.pc = "done"
    /\ plan.algorithm_used \in {"haversine", "haversine_fallback"}

\* the stops of the legs of a route, in route order
LegStops(route) == [i \in 1..Len(route) |-> route[i].shopkeeper]

\* C16: when nearest_neighbor_route returns, the route has one leg per stop
\* of the input, each stop in exactly one leg, and the order of the i-th leg
\* is i; while the loop runs, the legs so far are numbered 1, 2, ... and
\* legs and unvisited stops together are the input.  The route is the one
\* the request handlers compute in one step.
C16_RouteVisitsEachStopOnce ==
    /\ NNReturned =>
          /\ Len(plan.route) = Len(plan.shopkeepers)
          /\ SameMultiset(LegStops(plan.route), IdsOf(plan.shopkeepers))
          /\ \A i \in 1..Len(plan.route) : plan.route[i].order = i
          /\ plan.route =
                 nearest_neighbor_route(plan.shopkeepers, plan.start_lat, plan.start_lon)
    /\ plan.pc \in {"loop", "body"} =>
          /\ \A i \in 1..Len(plan.route) : plan.route[i].order = i
          /\ SameMultiset(LegStops(plan.route) \o IdsOf(plan.unvisited),
                          IdsOf(plan.shopkeepers))

\* three stops were visited from a start, in another order than the input
C16_Witness ==
    /\ NNReturned
    /\ Len(plan.route) = 3
    /\ Truthy(plan.start_lat)
    /\ Truthy(plan.start_lon)
    /\ LegStops(plan.route) # IdsOf(plan.shopkeepers)

\* nearest_neighbor_route has returned the route of an empty stop list: empty
EmptyListEmptyRoute ==
    (NNReturned /\ plan.shopkeepers = <<>>) => plan.route = <<>>

\* C17 as claimed: an empty stop list gives an empty route, and a single
\* stop gives one leg with order 1, distance_from_previous 0 and
\* cumulative_distance 0, whatever the start.
C17_SingleStopDistancesZero ==
    /\ EmptyListEmptyRoute
    /\ (NNReturned /\ Len(plan.shopkeepers) = 1) =>
          plan.route = <<[shopkeeper |-> plan.shopkeepers[1].id, order |-> 1,
                          distance_from_previous |-> 0, cumulative_distance |-> 0]>>

\* C17 amended: an empty stop list gives an empty route, and a single stop
\* gives one leg with order 1 whose two distances are 0 when no start is in
\* effect (none given, or a component of it is None or 0.0) and otherwise
\* the rounded distance from the start to the stop.
C17_SingleStopFromStart ==
    /\ EmptyListEmptyRoute
    /\ (NNReturned /\ Len(plan.shopkeepers) = 1) =>
          LET stop == plan.shopkeepers[1]
              d == IF Truthy(plan.start_lat) /\ Truthy(plan.start_lon)
                   THEN round2(calculate_distance(plan.start_lat[1], plan.start_lon[1],
                                                  stop.latitude, stop.longitude))
                   ELSE 0
          IN  plan.route = <<[shopkeeper |-> stop.id, order |-> 1,
                              distance_from_previous |-> d, cumulative_distance |-> d]>>

\* a single stop was routed from a start away from it
C17_Witness ==
    /\ NNReturned
    /\ Len(plan.shopkeepers) = 1
    /\ Truthy(plan.start_lat)
    /\ Truthy(plan.start_lon)
    /\ Len(plan.route) = 1
    /\ plan.route[1].distance_from_previous > 0

\* the cumulative distance of the last leg of the route of the last step, 0
\* for an empty route
LastLegDistance ==
    IF last.optimized_route = <<>> THEN 0
    ELSE last.optimized_route[Len(last.optimized_route)].cumulative_distance

\* C18 as claimed: the statistics of a response are travel time = total
\* distance / 25, visit time = stop count x 10 / 60 and total time = travel
\* time + visit time, the total distance being the cumulative distance of
\* the last leg (distances in hundredths of a kilometre, times in hundredths
\* of an hour).
C18_TimesAreExactQuotients ==
    last.op = "build_response" =>
        LET st == last.response.statistics
            n == Len(last.optimized_route)
        IN  /\ st.total_distance_km = LastLegDistance
            /\ st.estimated_travel_time_hours * avg_speed_kmh = st.total_distance_km
            /\ st.estimated_visit_time_hours * 60 = n * visit_time_minutes * 100
            /\ st.estimated_total_time_hours =
                   st.estimated_travel_time_hours + st.estimated_visit_time_hours

\* C18 amended: each of the three times is its quotient (or the sum of the
\* two quotients) rounded to two decimals, so the total time is within 0.01
\* of the sum of the two reported times; 10 stops and 50 km give 2.0, 1.67
\* and 3.67.
C18_TimesAreRoundedQuotients ==
    last.op = "build_response" =>
        LET st == last.response.statistics
            n == Len(last.optimized_route)
            total == st.total_distance_km
        IN  /\ st.total_shopkeepers = n
            /\ total = LastLegDistance
            /\ 2 * Abs(st.estimated_travel_time_hours * avg_speed_kmh - total)
                   <= avg_speed_kmh
            /\ 2 * Abs(st.estimated_visit_time_hours * 60 - n * visit_time_minutes * 100)
                   <= 60
            /\ 2 * Abs(st.estimated_total_time_hours * 60 * avg_speed_kmh
                          - (60 * total + avg_speed_kmh * n * visit_time_minutes * 100))
                   <= 60 * avg_speed_kmh
            /\ Abs(st.estimated_total_time_hours
                     - (st.estimated_travel_time_hours + st.estimated_visit_time_hours)) <= 1
            /\ (n = 10 /\ total = 5000) =>
                   /\ st.estimated_travel_time_hours = 200
                   /\ st.estimated_visit_time_hours = 167
                   /\ st.estimated_total_time_hours = 367

\* the response for ten stops and 50 km was built
C18_Witness ==
    /\ last.op = "build_response"
    /\ Len(last.optimized_route) = 10
    /\ last.response.statistics.total_distance_km = 5000
    /\ last.response.statistics.estimated_visit_time_hours = 167

\* the entry table without the route dicts: what the cache operations decide
Table(c) ==
    [i \in 1..Len(c) |->
        [key |-> c[i].key, timestamp |-> c[i].timestamp,
         last_access |-> c[i].last_access, seller_id |-> c[i].seller_id,
         shopkeeper_count |-> c[i].shopkeeper_count]]

\* the table and the counters of the cache
CacheState == [cache |-> cache, hits |-> hits, misses |-> misses,
               invalidations |-> invalidations]

\* the four operations, each as one indivisible change of table and counters
OpGet(st, s, ids) ==
    LET r == get(st.cache, st.hits, st.misses, s, ids, now)
    IN  [st EXCEPT !.cache = r.cache, !.hits = r.hits, !.misses = r.misses]

OpSet(st, s, ids) == [st EXCEPT !.cache = set(st.cache, s, ids, None, now)]

OpInvalidateSeller(st, s) ==
    LET c == invalidate_seller(st.cache, s)
    IN  [st EXCEPT !.cache = c, !.invalidations = @ + (Len(st.cache) - Len(c))]

OpInvalidateAll(st) ==
    [st EXCEPT !.cache = <<>>, !.invalidations = @ + Len(st.cache)]

Projected(st) == [st EXCEPT !.cache = Table(st.cache)]

\* after is what one handler can leave behind of before between two points
\* where it can be suspended: nothing, or its cache operations one after
\* the other
SequentialResult(before, after) ==
    \/ after = Projected(before)
    \/ \E s \in SellerIds, ids \in StopLists :
          \/ after = Projected(OpGet(before, s, ids))
          \/ after = Projected(OpSet(before, s, ids))
          \/ after = Projected(OpSet(OpGet(before, s, ids), s, ids))
    \/ \E s \in SellerIds :
          \/ after = Projected(OpInvalidateSeller(before, s))
          \/ \E t \in SellerIds :
                after = Projected(OpInvalidateSeller(OpInvalidateSeller(before, s), t))
    \/ after = Projected(OpInvalidateAll(before))

\* C19: however route requests (suspended on the API or not), assignment
\* changes and cache administration interleave, every step changes table
\* and counters as a sequence of whole cache operations would, the cache
\* never holds two entries of one key, and never more than max_size entries.
C19_CacheOperationsAtomic ==
    [][
        /\ \/ cacheVars' = cacheVars
           \/ \E after \in {Projected(CacheState')} : SequentialResult(CacheState, after)
        /\ \A i, j \in 1..Len(cache') : cache'[i].key = cache'[j].key => i = j
        /\ Len(cache') <= max_size
    ]_vars

\* a reassignment removed an entry while a route request was suspended
\* between its lookup and its store
C19_Witness ==
    /\ inflight # {}
    /\ last.op = "reassign"
    /\ last.committed
    /\ invalidations >= 1
    /\ misses >= 1

\* C20 as claimed: every call of the route computation comes to its end,
\* whatever the exchange with the API ends in: after a failed or timed-out
\* exchange the geodesic planner runs, and its loop ends.
C20_EveryCallCompletes ==
    <>(plan.pc = "done")

\* every shopkeeper has at most one active row in "assignments"
OneActivePerShopkeeper ==
    \A a, b \in ActiveRows :
        assignments[a].shopkeeper_id = assignments[b].shopkeeper_id => a = b

\* a step adds rows to "assignments" or deactivates rows, and nothing else:
\* no row is deleted, re-bound or reactivated
HistoryKept ==
    /\ Len(assignments') >= Len(assignments)
    /\ \A i \in 1..Len(assignments) :
          /\ assignments'[i].seller_id = assignments[i].seller_id
          /\ assignments'[i].shopkeeper_id = assignments[i].shopkeeper_id
          /\ assignments'[i].is_active => assignments[i].is_active

\* the stops a route request read for its seller are bound to that seller by
\* an active row, each by one
StopsAreActive ==
    (last.op = "optimize_route" /\ last.status \in {0, 200}) =>
        \A i \in 1..Len(last.shopkeeper_ids) :
            Cardinality({a \in 1..Len(assignments) :
                /\ assignments[a].is_active
                /\ assignments[a].seller_id = last.seller_id
                /\ assignments[a].shopkeeper_id = last.shopkeeper_ids[i]}) = 1

\* C21: through every assign, reassign and unassign request each shopkeeper
\* keeps at most one active assignment; rows that were superseded stay in the
\* table as inactive rows; and the stops a route request reads for a seller
\* are those of active rows only.
C21_OneActiveAssignment ==
    [][/\ OneActivePerShopkeeper
       /\ OneActivePerShopkeeper'
       /\ HistoryKept
       /\ StopsAreActive']_vars

\* shopkeeper 1 went from seller 1 to seller 2: the row of seller 1 is kept
\* inactive, and the route of seller 2 was served with stop 1
C21_Witness ==
    /\ Len(assignments) = 2
    /\ assignments[1] = [seller_id |-> 1, shopkeeper_id |-> 1, is_active |-> FALSE]
    /\ assignments[2] = [seller_id |-> 2, shopkeeper_id |-> 1, is_active |-> TRUE]
    /\ last.op = "optimize_route"
    /\ last.status = 200
    /\ last.seller_id = 2
    /\ last.shopkeeper_ids = <<1>>

\* the step appends a leg to the route of the frame: a pass of the loop body
\* that found a nearest stop
LegChosen ==
    /\ plan.pc = "body"
    /\ Len(plan'.route) = Len(plan.route) + 1

\* position of a stop in the input of the call
InputPosition(stop) ==
    CHOOSE p \in 1..Len(plan.shopkeepers) : plan.shopkeepers[p] = stop

\* distance from the current position of the frame to a stop, in metres
FromCurrent(stop) ==
    calculate_distance(plan.current_lat, plan.current_lon, stop.latitude, stop.longitude)

\* C22: every leg the greedy loop appends goes to a stop that was unvisited,
\* no unvisited stop was nearer to the current position, and of the
\* unvisited stops at that same distance it is the first of the input; the
\* leg carries that distance, and the stop becomes the current position.
C22_LegGoesToNearestUnvisited ==
    [][LegChosen =>
        \E i \in 1..Len(plan.unvisited) :
            LET chosen == plan.unvisited[i]
                leg == plan'.route[Len(plan'.route)]
            IN  /\ leg.shopkeeper = chosen.id
                /\ \A j \in 1..Len(plan.unvisited) :
                      /\ FromCurrent(chosen) <= FromCurrent(plan.unvisited[j])
                      /\ FromCurrent(chosen) = FromCurrent(plan.unvisited[j]) =>
                            InputPosition(chosen) <= InputPosition(plan.unvisited[j])
                /\ leg.distance_from_previous = round2(FromCurrent(chosen))
                /\ plan'.unvisited = RemoveAt(plan.unvisited, i)
                /\ plan'.current_lat = chosen.latitude
                /\ plan'.current_lon = chosen.longitude]_vars

\* from stop 1 the stops 3 and 2 are equally far; the input named 3 before
\* 2 and the route went to 3 first
C22_Witness ==
    /\ NNReturned
    /\ IdsOf(plan.shopkeepers) = <<1, 3, 2>>
    /\ plan.start_lat = <<>>
    /\ calculate_distance(1, 1, Shopkeepers[3].latitude, Shopkeepers[3].longitude)
          = calculate_distance(1, 1, Shopkeepers[2].latitude, Shopkeepers[2].longitude)
    /\ LegStops(plan.route) = <<1, 3, 2>>

\* the call carries a start coordinate: both parameters were sent
StartGiven == plan.start_lat # <<>> /\ plan.start_lon # <<>>

\* distance from the start of the call to a stop, in metres
FromStart(stop) ==
    calculate_distance(plan.start_lat[1], plan.start_lon[1], stop.latitude, stop.longitude)

\* the stop of the input that the first leg of the route goes to
FirstVisited ==
    CHOOSE stop \in Range(plan.shopkeepers) : stop.id = plan.route[1].shopkeeper

\* C23 as claimed: a start coordinate that was sent, whatever its values, 0
\* included, is the point the route is planned from: in geodesic mode the
\* first leg goes to the input stop nearest to the start and carries the
\* distance from the start to it, in API mode the first leg carries the
\* distance from the start to the first input stop.  Only when no start was
\* sent is the first input stop the first leg, with distances 0.
C23_StartIsZerothPoint ==
    /\ (NNReturned /\ plan.shopkeepers # <<>>) =>
          IF StartGiven
          THEN /\ \A j \in 1..Len(plan.shopkeepers) :
                     FromStart(FirstVisited) <= FromStart(plan.shopkeepers[j])
               /\ plan.route[1].distance_from_previous = round2(FromStart(FirstVisited))
          ELSE plan.route[1] = [shopkeeper |-> plan.shopkeepers[1].id, order |-> 1,
                                distance_from_previous |-> 0, cumulative_distance |-> 0]
    /\ (plan.pc = "done" /\ plan.algorithm_used = "openrouteservice"
            /\ plan.shopkeepers # <<>>) =>
          plan.route[1].distance_from_previous =
              IF StartGiven THEN round2(FromStart(plan.shopkeepers[1])) ELSE 0

\* the stop of the input that leg i of the route of the frame goes to
StopOfLeg(i) ==
    CHOOSE stop \in Range(plan.shopkeepers) : stop.id = plan.route[i].shopkeeper

\* the length of leg i of the route of the frame before rounding, in metres:
\* from the stop of the leg before; for the first leg from the start in
\* effect, 0 without one
LegMetres(i) ==
    IF i > 1
    THEN calculate_distance(StopOfLeg(i - 1).latitude, StopOfLeg(i - 1).longitude,
                            StopOfLeg(i).latitude, StopOfLeg(i).longitude)
    ELSE IF Truthy(plan.start_lat) /\ Truthy(plan.start_lon)
    THEN FromStart(StopOfLeg(1))
    ELSE 0

\* the lengths of legs 1..k before rounding, added up
RECURSIVE SumMetres(_)
SumMetres(k) == IF k = 0 THEN 0 ELSE fadd(SumMetres(k - 1), LegMetres(k))

\* the distance_from_previous values of legs 1..k, added up
RECURSIVE SumRounded(_)
SumRounded(k) ==
    IF k = 0 THEN 0 ELSE fadd(SumRounded(k - 1), plan.route[k].distance_from_previous)

\* C24 as claimed: in every route returned, the cumulative distance of leg k
\* is the sum of the rounded distance_from_previous values of legs 1..k.
C24_CumulativeIsSumOfRoundedLegs ==
    plan.pc = "done" =>
        \A k \in 1..Len(plan.route) :
            plan.route[k].cumulative_distance = SumRounded(k)

\* C24 amended: in every route returned, distance_from_previous of leg k is
\* the rounded length of the leg and cumulative_distance of leg k is the
\* rounding of the sum of the unrounded lengths of legs 1..k.
C24_CumulativeIsRoundedSum ==
    plan.pc = "done" =>
        \A k \in 1..Len(plan.route) :
            /\ plan.route[k].distance_from_previous = round2(LegMetres(k))
            /\ plan.route[k].cumulative_distance = round2(SumMetres(k))

\* the geodesic planner returned a route in which a cumulative distance is
\* not the sum of the rounded legs up to it
C24_Witness ==
    /\ NNReturned
    /\ \E k \in 1..Len(plan.route) :
          /\ plan.route[k].cumulative_distance # NaN
          /\ plan.route[k].cumulative_distance # SumRounded(k)

\* calculate_optimized_route_with_api has returned the route built after a
\* successful API call
ApiReturned ==
    /\ plan.pc = "done"
    /\ plan.algorithm_used = "openrouteservice"

\* the legs of the route are the stops of the input in input order, leg i has
\* order i, and every leg after the first carries the rounded distance from
\* the stop before it in the input
InputOrderKept ==
    /\ LegStops(plan.route) = IdsOf(plan.shopkeepers)
    /\ \A i \in 1..Len(plan.route) :
          /\ plan.route[i].order = i
          /\ i > 1 =>
                plan.route[i].distance_from_previous =
                    round2(calculate_distance(
                        plan.shopkeepers[i - 1].latitude, plan.shopkeepers[i - 1].longitude,
                        plan.shopkeepers[i].latitude, plan.shopkeepers[i].longitude))

HitStep ==
    /\ last'.op = "optimize_route"
    /\ last'.status = 200
    /\ ~last'.planner

\* the key of the request of the step
KeyOfStep == _generate_key(last'.seller_id, last'.shopkeeper_ids)

\* C26 as claimed: a hit served by optimize_route changes nothing in the
\* cache but the last-access stamp of an entry; the route data of every
\* entry, provenance fields included, is what was put.
C26_HitLeavesDataAsPut ==
    [][HitStep =>
        /\ Len(cache') = Len(cache)
        /\ \A i \in 1..Len(cache) :
              cache'[i] = [cache[i] EXCEPT !.last_access = cache'[i].last_access]
      ]_vars

\* C26 amended: a hit served by optimize_route leaves every other entry as
\* it is, and in the entry it hits it changes the last-access stamp and, in
\* the stored route data, from_cache (to TRUE) and cache_age_minutes (to the
\* age of the entry at the hit); legs, statistics, algorithm tag and seller
\* stay as put.  A step that neither hits nor stores a key leaves the entry
\* of the key as it is for as long as it leaves it in the cache.
C26_HitMarksStoredData ==
    [][/\ HitStep =>
            /\ Len(cache') = Len(cache)
            /\ \A i \in 1..Len(cache) :
                  IF cache[i].key = KeyOfStep
                  THEN cache'[i] = [cache[i] EXCEPT
                           !.last_access = now,
                           !.data.from_cache = TRUE,
                           !.data.cache_age_minutes =
                               ((now - cache[i].timestamp) * SecondsPerTick) \div 60]
                  ELSE cache'[i] = cache[i]
       /\ ~HitStep =>
            \A i \in 1..Len(cache) :
                (/\ cache[i].key \in Keys(cache')
                 /\ ~(RouteDone /\ cache[i].key = KeyOfStep)) =>
                    cache'[IndexOf(cache', cache[i].key)] = cache[i]
      ]_vars

\* an entry was hit for the second time, a minute after it was stored: the
\* stored data carries the marks of the hit
C26_Witness ==
    /\ last.op = "optimize_route"
    /\ last.status = 200
    /\ ~last.planner
    /\ hits >= 2
    /\ \E e \in Range(cache) :
          /\ e.key = _generate_key(last.seller_id, last.shopkeeper_ids)
          /\ e.last_access > e.timestamp
          /\ e.data.from_cache
          /\ e.data.cache_age_minutes = 1
          /\ Len(e.data.route_points) = 2

\* the step is a put for a key that the cache holds
OverwriteStep == last'.op = "set" /\ last'.present

\* C27 as claimed: a put for a key that is present overwrites the entry in
\* place: afterwards the key has exactly one entry, every other entry that
\* was in the cache is still there, unchanged, and the count of entries is
\* the same, also when the cache is at capacity.
C27_OverwriteKeepsOtherEntries ==
    [][OverwriteStep =>
        LET key == _generate_key(last'.seller_id, last'.shopkeeper_ids)
        IN  /\ Cardinality({j \in 1..Len(cache') : cache'[j].key = key}) = 1
            /\ Len(cache') = Len(cache)
            /\ \A i \in 1..Len(cache) :
                  cache[i].key # key => cache[i] \in Range(cache')
      ]_vars

\* C28 as claimed: however the calls of geocode, reverse_geocode and
\* search_place on the shared client interleave, any two requests that were
\* sent are at least one second apart.
C28_RequestsOneSecondApart ==
    \A i, j \in 1..Len(nominatim.sent) :
        i < j => nominatim.sent[j] - nominatim.sent[i] >= OneSecond

\* the route points optimize_route may compute for seller_id from the start
\* of the step's request: whatever order the query returned the stops in, and
\* whether the external API was left out, failed or answered
RoutePointsForStart ==
    {build_response(last'.seller_id, planned[1], planned[2]).route_points :
        planned \in UNION {
            {route_without_api(shopkeepers, last'.start[1], last'.start[2]),
             route_after_api(shopkeepers, last'.start[1], last'.start[2], None),
             route_after_api(shopkeepers, last'.start[1], last'.start[2],
                             get_route_result("ok"))} :
            shopkeepers \in RouteQueryResults(last'.seller_id)}}

\* C29 as claimed: a route that optimize_route serves from the cache was
\* computed from the start coordinate of the request it is served to (or
\* without one when the request has none): its route points are route points
\* that the planner yields for that start.
C29_HitRouteComputedFromRequestStart ==
    [][HitStep =>
          cache'[IndexOf(cache', KeyOfStep)].data.route_points \in RoutePointsForStart
      ]_vars

\* the sellers whose route_cache.invalidate_seller call completed in the step
\* that led to the current state (unassign_shopkeeper raises before it calls)
InvalidatedSellers ==
    IF last.op = "invalidate_seller_cache" /\ last.status = 200
    THEN {last.seller_id}
    ELSE IF last.op \in {"assign", "reassign"} /\ last.committed
    THEN last.affected
    ELSE {}

\* the cache keys that a request for the route of seller_id looks up (the
\* resumed request leaves the assignments as they are)
KeysRequested(seller_id) ==
    {_generate_key(seller_id, IdsOf(shopkeepers)) :
        shopkeepers \in RouteQueryResults(seller_id)}

\* C30 as claimed: a request that read the stops of seller S and was waiting
\* on the external API while invalidate_seller(S) completed stores, when it
\* is resumed, no entry that a later request for S can hit.
C30_NoEntryFromReadBeforeInvalidation ==
    [][(last'.op = "optimize_route_resume" /\ last'.seller_id \in InvalidatedSellers)
          => Keys(cache') \cap KeysRequested(last'.seller_id) = {}
      ]_vars

====
